---- MODULE Spec2Model ----
(***************************************************************************)
(* Pricing and order-policy resolution core of pricing_tool:               *)
(*   engine/pricing_engine.py   PricingEngine (tier waterfall, calculate)  *)
(*   engine/rule_matcher.py     RuleMatcher (match, sort, apply)           *)
(*   policy/program_resolver.py ProgramResolver.resolve_program            *)
(*   policy/order_policy_engine.py OrderPolicyEngine.apply_policies        *)
(*                                                                         *)
(* Conventions.                                                            *)
(*   Optional[T] is a sequence of length at most one: <<>> is None and     *)
(*   <<x>> is the value x.                                                 *)
(*   Money is fixed point, 1 unit = 1/10000 dollar (1 cent = 100 units).   *)
(*   A date string 'YYYY-MM-DD' is the triple <<Y, M, D>>; the string      *)
(*   comparison of two such strings is the lexicographic order on triples. *)
(***************************************************************************)
EXTENDS Integers, Sequences, FiniteSets, TLC

VARIABLES
    program_map,     \* PricingEngine.program_map  (rows Match Value, Program ID)
    group_members,   \* PricingEngine.group_members (rows Account Number, Group ID)
    rules_loaded,    \* RuleMatcher.loaded
    rules,           \* RuleMatcher.rules (active compiled rules, in file order)
    program_rules,   \* ProgramResolver.rules_df
    terms_rules,     \* OrderPolicyEngine.terms_rules
    freight_rules,   \* OrderPolicyEngine.freight_rules
    workflow_rules,  \* OrderPolicyEngine.workflow_rules
    now,             \* the wall clock, as a day number (datetime.now())
    req,             \* the Request the caller prices, Optional
    result,          \* the Result object of the last calculate(req), Optional
    first,           \* what the first calculate(req) returned, Optional
    tier_out,        \* outcome of the last stand-alone tier resolution, Optional
    match_out,       \* context and outcome of the last find_matching_rules, Optional
    price_out,       \* arguments and outcome of the last apply_rule_to_price, Optional
    rules_csv,       \* rows of data/rules/rules.csv, Optional (None: no file)
    compiled_json,   \* rules of data/rules/compiled_rules.json, Optional (None: no file)
    compile_out,     \* what the last compile_rules(rules_csv, output_json) did, Optional
    svc_out,         \* the last RulesService call and whether it raised, Optional
    disk,            \* the version of the data files on disk
    engine,          \* the version each attribute of the live PricingEngine was read from
    reload_pc,       \* position of a running reload_data in __init__ (0: none running)
    reload_out,      \* the last reload_data: engine before it and how it ended, Optional
    calc_seen        \* attribute versions a running calculate has read so far, Optional

vars == <<program_map, group_members, rules_loaded, rules, program_rules,
          terms_rules, freight_rules, workflow_rules, now, req, result,
          first, tier_out, match_out, price_out, rules_csv, compiled_json, compile_out,
          svc_out, disk, engine, reload_pc, reload_out, calc_seen>>

\* the engine as a snapshot under reload
snapshot == <<disk, engine, reload_pc, reload_out, calc_seen>>

\* what the pricing and policy calls never touch
aux == <<match_out, price_out, rules_csv, compiled_json, compile_out, svc_out, snapshot>>

tables == <<program_map, group_members, rules_loaded, rules, program_rules,
            terms_rules, freight_rules, workflow_rules>>

----------------------------------------------------------------------------
(* Bounds of the model *)

MaxMapRows == 2     \* rows of the Program Map sheet
MaxMemberRows == 2  \* rows of the Group Members sheet
MaxRules == 2       \* rows of rules.csv
MaxDay == 3         \* days the wall clock can advance
MaxProgRows == 2    \* rows of program_rules.csv
MaxCsvRows == 2     \* rows of rules.csv
MaxStoreRows == 3   \* rows of rules.csv the rule service grows it to
MaxVersion == 2     \* rewrites of the data files on disk

----------------------------------------------------------------------------
(* Generic helpers *)

None == <<>>

Some(x) == <<x>>

IsSome(o) == Len(o) > 0

Val(o) == o[1]

Range(s) == {s[i] : i \in 1..Len(s)}

Max2(a, b) == IF a >= b THEN a ELSE b

\* Sequences over S of length at most n
SeqUpTo(S, n) == UNION {[1..k -> S] : k \in 0..n}

\* Sequences over S of length at most n without repeated elements
DistinctSeqUpTo(S, n) ==
    {s \in SeqUpTo(S, n) : \A i, j \in 1..Len(s) : i # j => s[i] # s[j]}

\* pandas Series.unique(): first occurrences, in order of appearance
RECURSIVE Unique(_)
Unique(s) ==
    IF s = <<>> THEN <<>>
    ELSE LET rest == Unique(SubSeq(s, 1, Len(s) - 1))
             x == s[Len(s)]
         IN IF x \in Range(rest) THEN rest ELSE Append(rest, x)

----------------------------------------------------------------------------
(* Cell values and their normalisation *)

\* a blank spreadsheet cell as pandas reads it (NaN)
NA == "<NA>"

\* str.strip() on the strings of the model
Strip(s) ==
    CASE s = "  " -> ""
      [] s = " A1 " -> "A1"
      [] s = "G1 " -> "G1"
      [] s = " GOLD" -> "GOLD"
      [] OTHER -> s

\* Series.astype(str): NaN becomes the string 'nan'
AsStr(c) == IF c = NA THEN "nan" ELSE c

\* "Normalize program map": astype(str).str.strip() on every column
NormalizeMap(raw) ==
    [i \in 1..Len(raw) |->
        [MatchValue |-> Strip(AsStr(raw[i].MatchValue)),
         ProgramID |-> Strip(AsStr(raw[i].ProgramID))]]

\* __init__: the Program Map sheet, then program_map.csv appended, normalised
LoadProgramMap(sheet, csv) == NormalizeMap(sheet \o csv)

\* __init__: the Group Members sheet, then group_members.csv appended (not normalised)
LoadGroupMembers(sheet, csv) == sheet \o csv

----------------------------------------------------------------------------
(* Account tier resolver *)

\* group_members[group_members['Account Number'] == account_id]['Group ID'].unique()
AccountGroups(gm, account_id) ==
    LET mine == SelectSeq(gm, LAMBDA r : r.AccountNumber = account_id)
    IN Unique([i \in 1..Len(mine) |-> mine[i].GroupID])

\* program_map[program_map['Match Value'] == account_id]
ExactMatch(pm, account_id) ==
    SelectSeq(pm, LAMBDA r : r.MatchValue = account_id)

\* program_map[program_map['Match Value'].isin(account_groups)]
GroupMatch(pm, groups) ==
    SelectSeq(pm, LAMBDA r : r.MatchValue \in Range(groups))

\* get_account_tier once the three lookups are made
TierOf(exact_match, account_groups, group_match) ==
    IF exact_match # <<>> THEN exact_match[1].ProgramID
    ELSE IF Len(account_groups) > 0 /\ group_match # <<>>
         THEN group_match[1].ProgramID
    ELSE "MSRP"

\* PricingEngine.get_account_tier
get_account_tier(pm, gm, raw_account) ==
    TierOf(ExactMatch(pm, Strip(raw_account)),
           AccountGroups(gm, Strip(raw_account)),
           GroupMatch(pm, AccountGroups(gm, Strip(raw_account))))

\* scripts/legacy PricingEngine.get_account_tier, on the same two tables
legacy_get_account_tier(pm, gm, raw_account) ==
    LET account_id == Strip(raw_account)
        exact_match == SelectSeq(pm, LAMBDA r : r.MatchValue = account_id)
        mine == SelectSeq(gm, LAMBDA r : r.AccountNumber = account_id)
        account_groups == Unique([i \in 1..Len(mine) |-> mine[i].GroupID])
        group_match == SelectSeq(pm, LAMBDA r : r.MatchValue \in Range(account_groups))
    IN IF exact_match # <<>> THEN exact_match[1].ProgramID
       ELSE IF Len(account_groups) > 0 /\ group_match # <<>>
            THEN group_match[1].ProgramID
       ELSE "MSRP"

\* a formatted string: its literal pieces and the numbers formatted into it
Text(words, nums) == [words |-> words, nums |-> nums]

\* models.TraceStep; value is Optional
TraceStep(step, description, value) ==
    [step |-> step, description |-> description, value |-> value]

\* ", ".join(account_groups): the groups joined; a NaN group is not a str
JoinGroups(groups) == Text(groups, <<>>)

\* the trace entries up to the group lookup, for an account without direct match
GroupLookupTrace(account_id, account_groups) ==
    << TraceStep("Account Lookup", Text(<<"Resolving tier for account", account_id>>, <<>>), None),
       TraceStep("Direct Match", Text(<<"No direct account mapping found">>, <<>>), None),
       IF Len(account_groups) > 0
       THEN TraceStep("Group Lookup", Text(<<"Account belongs to groups">>, <<>>),
                      Some(JoinGroups(account_groups)))
       ELSE TraceStep("Group Lookup", Text(<<"No group memberships found">>, <<>>), None) >>

\* get_account_tier_with_trace once the three lookups are made
TierWithTrace(account_id, exact_match, account_groups, group_match) ==
    IF exact_match # <<>>
    THEN [raised |-> FALSE, tier |-> exact_match[1].ProgramID,
          trace |-> << TraceStep("Account Lookup",
                                 Text(<<"Resolving tier for account", account_id>>, <<>>), None),
                       TraceStep("Direct Match",
                                 Text(<<"Found direct account -> tier mapping">>, <<>>),
                                 Some(Text(<<exact_match[1].ProgramID>>, <<>>))) >>]
    ELSE IF Len(account_groups) > 0 /\ NA \in Range(account_groups)
    THEN [raised |-> TRUE, tier |-> "", trace |-> <<>>]
    ELSE IF Len(account_groups) > 0 /\ group_match # <<>>
    THEN [raised |-> FALSE, tier |-> group_match[1].ProgramID,
          trace |-> Append(GroupLookupTrace(account_id, account_groups),
                           TraceStep("Group -> Tier", Text(<<"Group mapped to tier">>, <<>>),
                                     Some(Text(<<group_match[1].ProgramID>>, <<>>))))]
    ELSE [raised |-> FALSE, tier |-> "MSRP",
          trace |-> Append(GroupLookupTrace(account_id, account_groups),
                           TraceStep("Fallback", Text(<<"Using MSRP fallback">>, <<>>),
                                     Some(Text(<<"MSRP">>, <<>>))))]

\* PricingEngine.get_account_tier_with_trace: [raised, tier, trace];
\* raised is the TypeError of str.join on a NaN Group ID
get_account_tier_with_trace(pm, gm, raw_account) ==
    TierWithTrace(Strip(raw_account),
                  ExactMatch(pm, Strip(raw_account)),
                  AccountGroups(gm, Strip(raw_account)),
                  GroupMatch(pm, AccountGroups(gm, Strip(raw_account))))

----------------------------------------------------------------------------
(* Dates *)

\* datetime.now().strftime('%Y-%m-%d') on day n of the clock; day 0 is 2026-01-30
DateOf(n) == IF 30 + n <= 31 THEN <<2026, 1, 30 + n>> ELSE <<2026, 2, n - 1>>

\* a < b on two 'YYYY-MM-DD' strings
DateLess(a, b) ==
    \/ a[1] < b[1]
    \/ a[1] = b[1] /\ a[2] < b[2]
    \/ a[1] = b[1] /\ a[2] = b[2] /\ a[3] < b[3]

----------------------------------------------------------------------------
(* Reference data of the pricing side *)

\* Master_Catalog_Final.csv: SKU index, Description, MSRP and the {TIER}_Price
\* columns GOLD_Price and SILVER_Price (a blank price is None). S2 occurs twice.
Catalog ==
    << [SKU |-> "S1", Description |-> Some("Helmet"), MSRP |-> 48000,
        prices |-> [GOLD |-> Some(32000), SILVER |-> None]],
       [SKU |-> "S2", Description |-> None, MSRP |-> 24000,
        prices |-> [GOLD |-> None, SILVER |-> Some(16000)]],
       [SKU |-> "S2", Description |-> Some("Duplicate"), MSRP |-> 20000,
        prices |-> [GOLD |-> Some(8000), SILVER |-> Some(8000)]] >>

\* account_intel.csv after normalisation
AccountIntel ==
    << [MatchValue |-> "G1", Freight |-> "FFA", Terms |-> "NET60", Notes |-> ""],
       [MatchValue |-> "MSRP", Freight |-> "Prepaid", Terms |-> "NET30", Notes |-> ""] >>

\* str.startswith on the SKUs of the model
StartsWith(sku, prefix) ==
    \/ prefix = ""
    \/ prefix = sku
    \/ prefix = "S" /\ sku \in {"S1", "S2", "SX"}

\* PricingEngine.get_account_intel
get_account_intel(gm, raw_account) ==
    LET account_id == Strip(raw_account)
        exact == SelectSeq(AccountIntel, LAMBDA r : r.MatchValue = account_id)
        account_groups == AccountGroups(gm, account_id)
        by_group == SelectSeq(AccountIntel, LAMBDA r : r.MatchValue \in Range(account_groups))
        msrp == SelectSeq(AccountIntel, LAMBDA r : r.MatchValue = "MSRP")
    IN IF exact # <<>> THEN exact[1]
       ELSE IF Len(account_groups) > 0 /\ by_group # <<>> THEN by_group[1]
       ELSE IF msrp # <<>> THEN msrp[1]
       ELSE [MatchValue |-> "", Freight |-> "Unknown", Terms |-> "Unknown", Notes |-> ""]

----------------------------------------------------------------------------
(* Rule matcher *)

PriceActions == {"override_unit_price", "discount_percent", "discount_amount", "price_floor"}

\* the match of a compiled rule: every condition Optional (absent key = None)
Match(account, account_group, sku, sku_prefix, min_qty, max_qty, start_date, end_date) ==
    [account |-> account, account_group |-> account_group, sku |-> sku,
     sku_prefix |-> sku_prefix, brand |-> None, min_qty |-> min_qty,
     max_qty |-> max_qty, start_date |-> start_date, end_date |-> end_date]

\* a compiled rule; the action value is kept as its float (num) and its str (str)
Rule(id, priority, match, type, num, str) ==
    [rule_id |-> id, name |-> id, active |-> TRUE, priority |-> priority,
     match |-> match, action |-> [type |-> type, num |-> num, str |-> str]]

\* one iteration of the loop of find_matching_rules: does the rule match
RuleMatches(rule, account_id, account_group, sku, qty, today) ==
    LET m == rule.match
        req_groups == IF IsSome(account_group)
                      THEN {Strip(g) : g \in Range(Val(account_group))}
                      ELSE {}
    IN /\ IsSome(m.account) => Val(m.account) = account_id
       /\ IsSome(m.account_group) => Strip(Val(m.account_group)) \in req_groups
       /\ IsSome(m.sku) => (Val(m.sku) = sku \/ Val(m.sku) = "*")
       /\ IsSome(m.sku_prefix) => StartsWith(sku, Strip(Val(m.sku_prefix)))
       /\ (IsSome(m.min_qty) /\ Val(m.min_qty) # 0) => ~(qty < Val(m.min_qty))
       /\ (IsSome(m.max_qty) /\ Val(m.max_qty) # 0) => ~(qty > Val(m.max_qty))
       /\ IsSome(m.start_date) => ~DateLess(today, Val(m.start_date))
       /\ IsSome(m.end_date) => ~DateLess(Val(m.end_date), today)

MatchedRule(rule) ==
    [rule_id |-> rule.rule_id, name |-> rule.name, priority |-> rule.priority,
     action_type |-> rule.action.type, action_value |-> [num |-> rule.action.num,
                                                         str |-> rule.action.str]]

\* an insertion that puts x before the elements of equal priority (not stable)
RECURSIVE InsertByPriority_TiesFirst(_, _)
InsertByPriority_TiesFirst(s, x) ==
    IF s = <<>> THEN <<x>>
    ELSE IF s[Len(s)].priority < x.priority THEN Append(s, x)
    ELSE Append(InsertByPriority_TiesFirst(SubSeq(s, 1, Len(s) - 1), x), s[Len(s)])

\* insert x after every element whose priority is <= x's (stable)
RECURSIVE InsertByPriority(_, _)
InsertByPriority(s, x) ==
    IF s = <<>> THEN <<x>>
    ELSE IF s[Len(s)].priority <= x.priority THEN Append(s, x)
    ELSE Append(InsertByPriority(SubSeq(s, 1, Len(s) - 1), x), s[Len(s)])

\* list.sort(key=lambda r: r.priority): ascending and stable
RECURSIVE SortByPriority(_)
SortByPriority(s) ==
    IF s = <<>> THEN <<>>
    ELSE InsertByPriority(SortByPriority(SubSeq(s, 1, Len(s) - 1)), s[Len(s)])

\* RuleMatcher.find_matching_rules; request_date is Optional, clock the wall clock
find_matching_rules(loaded, rs, account_id, account_group, sku, qty, request_date, clock) ==
    IF ~loaded THEN <<>>
    ELSE LET today == IF IsSome(request_date) THEN Val(request_date) ELSE DateOf(clock)
             hit == SelectSeq(rs, LAMBDA r :
                        RuleMatches(r, account_id, account_group, sku, qty, today))
             matched == [i \in 1..Len(hit) |-> MatchedRule(hit[i])]
         IN SortByPriority(matched)

\* does float(rule.action_value) raise ValueError: the action values of the
\* model that are not the text of a number
FloatRaises(action_value) == action_value.str \in {"ten", ""}

\* does apply_rule_to_price raise on the rule (set_tier takes str(), never float())
ApplyRaises(rule) ==
    /\ rule.action_type \in PriceActions
    /\ FloatRaises(rule.action_value)

\* the arithmetic without the clamp of discount_amount at 0
apply_rule_to_price_NoClamp(rule, base_price, current_tier) ==
    CASE rule.action_type = "set_tier" ->
            [price |-> base_price, tier |-> rule.action_value.str]
      [] rule.action_type = "override_unit_price" ->
            [price |-> rule.action_value.num, tier |-> current_tier]
      [] rule.action_type = "discount_percent" ->
            [price |-> (base_price * (100 - rule.action_value.num)) \div 100,
             tier |-> current_tier]
      [] rule.action_type = "discount_amount" ->
            [price |-> base_price - rule.action_value.num, tier |-> current_tier]
      [] rule.action_type = "price_floor" ->
            [price |-> IF base_price < rule.action_value.num
                       THEN rule.action_value.num ELSE base_price,
             tier |-> current_tier]
      [] OTHER -> [price |-> base_price, tier |-> current_tier]

\* RuleMatcher.apply_rule_to_price: [price, tier]
apply_rule_to_price(rule, base_price, current_tier) ==
    CASE rule.action_type = "set_tier" ->
            [price |-> base_price, tier |-> rule.action_value.str]
      [] rule.action_type = "override_unit_price" ->
            [price |-> rule.action_value.num, tier |-> current_tier]
      [] rule.action_type = "discount_percent" ->
            [price |-> (base_price * (100 - rule.action_value.num)) \div 100,
             tier |-> current_tier]
      [] rule.action_type = "discount_amount" ->
            [price |-> Max2(0, base_price - rule.action_value.num), tier |-> current_tier]
      [] rule.action_type = "price_floor" ->
            [price |-> IF base_price < rule.action_value.num
                       THEN rule.action_value.num ELSE base_price,
             tier |-> current_tier]
      [] OTHER -> [price |-> base_price, tier |-> current_tier]

----------------------------------------------------------------------------
(* Pricing engine *)

\* f"${x:.2f}": the amount in cents, rounded
Money2(p) == (p + 50) \div 100

\* product_data[tier_column] when the column exists and the cell is not null
TierPrice(product_data, tier) ==
    IF tier \in DOMAIN product_data.prices THEN product_data.prices[tier] ELSE None

\* the last set_tier rule of the list instead of the first
FirstSetTier_Last(matching_rules) ==
    LET st == SelectSeq(matching_rules, LAMBDA r : r.action_type = "set_tier")
    IN IF st = <<>> THEN None ELSE Some(st[Len(st)])

\* the first rule of the list whose action is set_tier, Optional
FirstSetTier(matching_rules) ==
    LET st == SelectSeq(matching_rules, LAMBDA r : r.action_type = "set_tier")
    IN IF st = <<>> THEN None ELSE Some(st[1])

\* first-match-wins instead of stacking: a price rule is skipped once one has applied
ApplyPriceRule_NoStack(line, rule) ==
    IF rule.action_type \in PriceActions /\ line.source # "Rule"
    THEN [line EXCEPT !.unit_price = apply_rule_to_price(rule, line.unit_price,
                                                         line.tier_used).price,
                      !.source = "Rule",
                      !.rules_applied = Append(@, rule.rule_id)]
    ELSE line

\* a price rule that reprices the line and leaves its source tag as it was
ApplyPriceRule_KeepSource(line, rule) ==
    IF rule.action_type \in PriceActions
    THEN LET r == apply_rule_to_price(rule, line.unit_price, line.tier_used)
         IN [line EXCEPT !.unit_price = r.price,
                         !.rules_applied = Append(@, rule.rule_id),
                         !.trace = Append(@, TraceStep("Rule Applied",
                                       Text(<<"Rule", rule.rule_id, rule.action_type>>, <<>>),
                                       Some(Text(<<"$">>, <<Money2(r.price)>>))))]
    ELSE line

\* the body of the "Apply price-modifying rules" loop for one rule
ApplyPriceRule(line, rule) ==
    IF rule.action_type \in PriceActions
    THEN LET r == apply_rule_to_price(rule, line.unit_price, line.tier_used)
         IN [line EXCEPT !.unit_price = r.price,
                         !.source = "Rule",
                         !.rules_applied = Append(@, rule.rule_id),
                         !.trace = Append(@, TraceStep("Rule Applied",
                                       Text(<<"Rule", rule.rule_id, rule.action_type>>, <<>>),
                                       Some(Text(<<"$">>, <<Money2(r.price)>>))))]
    ELSE line

\* the "Apply price-modifying rules" loop, over the rules in list order
RECURSIVE ApplyPriceRules(_, _)
ApplyPriceRules(line, matching_rules) ==
    IF matching_rules = <<>> THEN line
    ELSE ApplyPriceRules(ApplyPriceRule(line, Head(matching_rules)), Tail(matching_rules))

\* the rules _calculate_line obtains from the matcher (it passes no request_date)
LineMatchingRules(loaded, rs, account_id, group_str, sku, qty, clock) ==
    IF loaded /\ account_id # ""
    THEN find_matching_rules(loaded, rs, account_id, group_str, sku, qty, None, clock)
    ELSE <<>>

\* "Resolve account groups once for the whole line": group_str, Optional
GroupStr(gm, account_id) ==
    IF account_id # "" /\ Len(AccountGroups(gm, account_id)) > 0
    THEN Some(AccountGroups(gm, account_id))
    ELSE None

\* "Create line item" and its first trace entries
NewLine(sku, product_data, qty, tier, group_str) ==
    [sku |-> sku,
     description |-> IF IsSome(product_data.Description)
                     THEN Val(product_data.Description) ELSE "N/A",
     quantity |-> qty, unit_price |-> 0, extended_price |-> 0,
     tier_used |-> tier, source |-> "", rules_applied |-> <<>>,
     warnings |-> <<>>, configuration |-> None,
     trace |-> <<TraceStep("SKU Lookup", Text(<<"Found product in catalog">>, <<>>),
                           Some(Text(<<sku>>, <<>>)))>>
               \o (IF IsSome(group_str)
                   THEN <<TraceStep("Context", Text(<<"Account Groups">>, <<>>),
                                    Some(Text(Val(group_str), <<>>)))>>
                   ELSE <<>>)]

\* "Check for tier-level rules first": the tier the price is looked up at
EffectiveTier(st, tier) == IF IsSome(st) THEN Val(st).action_value.str ELSE tier

\* "Check for tier-level rules first": the line after the first set_tier rule, if any
ApplySetTier(line, st) ==
    IF IsSome(st)
    THEN [line EXCEPT !.tier_used = Val(st).action_value.str,
                      !.rules_applied = Append(@, Val(st).rule_id),
                      !.trace = Append(@, TraceStep("Rule Applied",
                                    Text(<<Val(st).name, Val(st).rule_id>>, <<>>),
                                    Some(Text(<<"tier", Val(st).action_value.str>>, <<>>))))]
    ELSE line

\* the MSRP fallback without its warning
ResolvePrice_NoWarning(line, product_data, effective_tier, tp) ==
    IF IsSome(tp)
    THEN [line EXCEPT !.unit_price = Val(tp), !.source = "Contract"]
    ELSE [line EXCEPT !.unit_price = product_data.MSRP, !.source = "MSRP",
                      !.tier_used = "MSRP"]

\* "Try tier price first ... Fall back to MSRP"; tp is the tier price, Optional
ResolvePrice(line, product_data, effective_tier, tp) ==
    IF IsSome(tp)
    THEN [line EXCEPT !.unit_price = Val(tp),
                      !.source = "Contract",
                      !.trace = Append(@, TraceStep("Price Resolution",
                                    Text(<<"Using tier price", effective_tier>>, <<>>),
                                    Some(Text(<<"$">>, <<Money2(Val(tp))>>))))]
    ELSE [line EXCEPT !.unit_price = product_data.MSRP,
                      !.source = "MSRP",
                      !.tier_used = "MSRP",
                      !.trace = Append(@, TraceStep("Price Resolution",
                                    Text(<<"No tier price, using MSRP fallback",
                                           effective_tier>>, <<>>),
                                    Some(Text(<<"$">>, <<Money2(product_data.MSRP)>>)))),
                      !.warnings = Append(@, <<"MSRP fallback used for SKU", line.sku>>)]

\* an extension that leaves the quantity out
Extend_UnitOnly(line, qty) ==
    [line EXCEPT !.extended_price = line.unit_price,
                 !.trace = Append(@, TraceStep("Extension",
                               Text(<<"Quantity", "x", "$">>, <<qty, Money2(line.unit_price)>>),
                               Some(Text(<<"$">>, <<Money2(line.unit_price)>>))))]

\* line.extended_price = line.unit_price * qty, and its trace entry
Extend(line, qty) ==
    [line EXCEPT !.extended_price = line.unit_price * qty,
                 !.trace = Append(@, TraceStep("Extension",
                               Text(<<"Quantity", "x", "$">>, <<qty, Money2(line.unit_price)>>),
                               Some(Text(<<"$">>, <<Money2(line.unit_price * qty)>>))))]

\* _calculate_line from the catalog row on, given the matching rules
PriceLine(sku, product_data, qty, tier, group_str, matching_rules) ==
    Extend(
        ApplyPriceRules(
            ResolvePrice(
                ApplySetTier(NewLine(sku, product_data, qty, tier, group_str),
                             FirstSetTier(matching_rules)),
                product_data,
                EffectiveTier(FirstSetTier(matching_rules), tier),
                TierPrice(product_data, EffectiveTier(FirstSetTier(matching_rules), tier))),
            matching_rules),
        qty)

\* _calculate_line after the strip of its arguments; rows are the catalog rows of the SKU
LineOf(rows, gm, loaded, rs, clock, sku, qty, tier, account_id) ==
    IF rows = <<>> THEN None
    ELSE Some(PriceLine(sku, rows[1], qty, tier, GroupStr(gm, account_id),
                        LineMatchingRules(loaded, rs, account_id, GroupStr(gm, account_id),
                                          sku, qty, clock)))

\* PricingEngine._calculate_line: the LineItem, Optional (None for an unknown SKU)
calculate_line(gm, loaded, rs, clock, raw_sku, qty, tier, raw_account) ==
    LineOf(SelectSeq(Catalog, LAMBDA r : r.SKU = Strip(raw_sku)),
           gm, loaded, rs, clock, Strip(raw_sku), qty, tier, Strip(raw_account))

\* "Bubble up line warnings": append the line's warnings not yet in the list
RECURSIVE BubbleWarnings(_, _)
BubbleWarnings(warnings, line_warnings) ==
    IF line_warnings = <<>> THEN warnings
    ELSE BubbleWarnings(IF Head(line_warnings) \in Range(warnings) THEN warnings
                        ELSE Append(warnings, Head(line_warnings)),
                        Tail(line_warnings))

\* a loop body that puts the line in front of the lines instead of appending it
AddLine_Prepend(res, line) ==
    IF IsSome(line)
    THEN [res EXCEPT !.lines = <<Val(line)>> \o @,
                     !.total = @ + Val(line).extended_price,
                     !.warnings = BubbleWarnings(@, Val(line).warnings)]
    ELSE res

\* "result.lines.append(line) ..." for one line, Optional
AddLine(res, line) ==
    IF IsSome(line)
    THEN [res EXCEPT !.lines = Append(@, Val(line)),
                     !.total = @ + Val(line).extended_price,
                     !.warnings = BubbleWarnings(@, Val(line).warnings)]
    ELSE res

\* the "Process each line item" loop of calculate over the remaining items
RECURSIVE ProcessItems(_, _, _, _, _, _, _)
ProcessItems(res, items, gm, loaded, rs, clock, raw_account) ==
    IF items = <<>> THEN res
    ELSE ProcessItems(AddLine(res, calculate_line(gm, loaded, rs, clock, Head(items).sku,
                                                  Head(items).qty, res.tier, raw_account)),
                      Tail(items), gm, loaded, rs, clock, raw_account)

\* does str.join raise on the account's groups (a NaN Group ID) in _calculate_line
LineJoinRaises(gm, request) ==
    /\ Strip(request.account_id) # ""
    /\ NA \in Range(AccountGroups(gm, Strip(request.account_id)))
    /\ \E i \in 1..Len(request.items) :
          \E j \in 1..Len(Catalog) : Catalog[j].SKU = Strip(request.items[i].sku)

\* does the "Apply price-modifying rules" loop of some line raise: neither
\* _calculate_line nor calculate catches the ValueError of apply_rule_to_price
LineApplyRaises(gm, loaded, rs, clock, request) ==
    \E i \in 1..Len(request.items) :
        /\ \E j \in 1..Len(Catalog) : Catalog[j].SKU = Strip(request.items[i].sku)
        /\ \E r \in Range(LineMatchingRules(loaded, rs, Strip(request.account_id),
                                            GroupStr(gm, Strip(request.account_id)),
                                            Strip(request.items[i].sku),
                                            request.items[i].qty, clock)) :
              ApplyRaises(r)

\* "result = Result(...)" and the tier trace added to it
NewResult(request, tt, intel) ==
    [raised |-> FALSE, account_id |-> request.account_id, tier |-> tt.tier,
     total |-> 0, lines |-> <<>>, intel |-> intel,
     policy |-> None, warnings |-> <<>>, trace |-> tt.trace]

\* calculate once the tier is resolved
CalculateWith(tt, gm, loaded, rs, clock, request) ==
    IF tt.raised \/ LineJoinRaises(gm, request)
       \/ LineApplyRaises(gm, loaded, rs, clock, request)
    THEN [NewResult(request, tt, get_account_intel(gm, request.account_id))
             EXCEPT !.raised = TRUE, !.tier = "", !.trace = <<>>]
    ELSE ProcessItems(NewResult(request, tt, get_account_intel(gm, request.account_id)),
                      request.items, gm, loaded, rs, clock, request.account_id)

\* PricingEngine.calculate: the Result; raised when a TypeError leaves the call
calculate(pm, gm, loaded, rs, clock, request) ==
    CalculateWith(get_account_tier_with_trace(pm, gm, request.account_id),
                  gm, loaded, rs, clock, request)

----------------------------------------------------------------------------
(* Program resolver *)

\* str(order_type)
IntToStr(n) == CASE n = 25 -> "25" [] n = 26 -> "26" [] n = 10 -> "10" [] OTHER -> "?"

\* a < b on the priority strings of the model (the column is read as str)
StrLess(a, b) == <<a, b>> \in {<<"10", "5">>}

\* insert x before the first element that sorts below it, after its equals
RECURSIVE InsertDescending(_, _)
InsertDescending(s, x) ==
    IF s = <<>> THEN <<x>>
    ELSE IF ~StrLess(s[Len(s)].priority, x.priority) THEN Append(s, x)
    ELSE Append(InsertDescending(SubSeq(s, 1, Len(s) - 1), x), s[Len(s)])

\* match.sort_values('priority', ascending=False)
RECURSIVE SortDescending(_)
SortDescending(s) ==
    IF s = <<>> THEN <<>>
    ELSE InsertDescending(SortDescending(SubSeq(s, 1, Len(s) - 1)), s[Len(s)])

\* the waterfall with the group rows consulted before the account row
ProgramOf_GroupFirst(prt, order_type, account_groups, by_type, by_account, by_group) ==
    IF prt = <<>> THEN "STANDARD"
    ELSE IF IsSome(order_type) /\ by_type # <<>> THEN by_type[1].program_id
    ELSE IF account_groups # <<>> /\ by_group # <<>>
         THEN SortDescending(by_group)[1].program_id
    ELSE IF by_account # <<>> THEN by_account[1].program_id
    ELSE "STANDARD"

\* the waterfall with the account row consulted before the order type
ProgramOf_AccountFirst(prt, order_type, account_groups, by_type, by_account, by_group) ==
    IF prt = <<>> THEN "STANDARD"
    ELSE IF by_account # <<>> THEN by_account[1].program_id
    ELSE IF IsSome(order_type) /\ by_type # <<>> THEN by_type[1].program_id
    ELSE IF account_groups # <<>> /\ by_group # <<>>
         THEN SortDescending(by_group)[1].program_id
    ELSE "STANDARD"

\* resolve_program once the three selections are made
ProgramOf(prt, order_type, account_groups, by_type, by_account, by_group) ==
    IF prt = <<>> THEN "STANDARD"
    ELSE IF IsSome(order_type) /\ by_type # <<>> THEN by_type[1].program_id
    ELSE IF by_account # <<>> THEN by_account[1].program_id
    ELSE IF account_groups # <<>> /\ by_group # <<>>
         THEN SortDescending(by_group)[1].program_id
    ELSE "STANDARD"

\* ProgramResolver.resolve_program; prt is rules_df (no rows when the file is absent)
resolve_program(prt, account_id, account_groups, order_type) ==
    ProgramOf(prt, order_type, account_groups,
              SelectSeq(prt, LAMBDA r :
                  /\ r.match_type = "order_type"
                  /\ IsSome(order_type)
                  /\ r.match_value = IntToStr(Val(order_type))),
              SelectSeq(prt, LAMBDA r :
                  r.match_type = "account_id" /\ r.match_value = account_id),
              SelectSeq(prt, LAMBDA r :
                  r.match_type = "group_id" /\ r.match_value \in Range(account_groups)))

----------------------------------------------------------------------------
(* Order policy engine *)

\* str.upper() on the strings of the model
Upper(s) ==
    CASE s = "2day air" -> "2DAY AIR"
      [] s = "platinum" -> "PLATINUM"
      [] s = "forwarder" -> "FORWARDER"
      [] OTHER -> s

\* x in s, for the substrings the policy engine looks for
Contains(s, x) ==
    \/ s = x
    \/ <<s, x>> \in { <<"PRIORITY OVERNIGHT", "PRIORITY">>,
                      <<"PRIORITY OVERNIGHT", "OVERNIGHT">>,
                      <<"2DAY AIR", "2DAY">>, <<"2DAY AIR", "AIR">>,
                      <<"FAIRWAY FREIGHT", "AIR">>,
                      <<"INTERNATIONAL_DEALER", "INTERNATIONAL">>,
                      <<"SFT 18%", "SFT">> }

\* "1. Program Filter": the rows of the program, else the STANDARD rows
ProgramRows(df, program_id) ==
    IF SelectSeq(df, LAMBDA r : r.program_id = program_id) # <<>>
    THEN SelectSeq(df, LAMBDA r : r.program_id = program_id)
    ELSE SelectSeq(df, LAMBDA r : r.program_id = "STANDARD")

\* "2. Total Filter": min_total and max_total are Optional numbers, a blank or
\* non-numeric cell being coerced to 0 and to infinity
FilterTotal(matches, total) ==
    SelectSeq(matches, LAMBDA r :
        /\ (IF IsSome(r.min_total) THEN Val(r.min_total) ELSE 0) <= total
        /\ (IsSome(r.max_total) => Val(r.max_total) >= total))

\* "3. Date Filter" for a request that has a date
FilterDates(matches, req_dt) ==
    SelectSeq(matches, LAMBDA r :
        /\ (~IsSome(r.start_date) \/ ~DateLess(req_dt, Val(r.start_date)))
        /\ (~IsSome(r.end_date) \/ ~DateLess(Val(r.end_date), req_dt)))

\* _find_best_matches after the program filter
NarrowMatches(matches, total, request_date) ==
    IF matches = <<>> THEN matches
    ELSE IF IsSome(request_date)
         THEN FilterDates(FilterTotal(matches, total), Val(request_date))
    ELSE FilterTotal(matches, total)

\* OrderPolicyEngine._find_best_matches; total in money units, request_date Optional
find_best_matches(df, program_id, total, request_date) ==
    NarrowMatches(ProgramRows(df, program_id), total, request_date)

\* a selection that narrows the table handed in instead of a copy of its rows
SharedTableAfter_Narrowed(df, program_id, total, request_date) ==
    IF df = <<>> THEN df ELSE find_best_matches(df, program_id, total, request_date)

\* the table a caller shares with _find_best_matches, after the call: the rows
\* of the program are selected into a copy (.copy()), the column assignments
\* and the filters that follow work on the copy
SharedTableAfter(df, program_id, total, request_date) ==
    df

DefaultTerms(notes) ==
    [code |-> "NET_30", net_days |-> Some(30), due_date |-> None, notes |-> notes,
     needs_review |-> FALSE, review_reason |-> None]

\* _compute_terms from the best row on
TermsOfRow(row) ==
    [code |-> row.terms_code,
     net_days |-> IF row.terms_code = "DATED" THEN None
                  ELSE IF row.terms_code = "CIA" THEN Some(0)
                  ELSE IF IsSome(row.net_days) THEN row.net_days
                  ELSE Some(30),
     due_date |-> IF row.terms_code = "DATED" THEN row.dated_due_date ELSE None,
     notes |-> <<>>,
     needs_review |-> row.needs_review,
     review_reason |-> IF row.needs_review THEN row.review_reason ELSE None]

\* _compute_terms once the matches are found
TermsOf(matches) ==
    IF matches = <<>>
    THEN DefaultTerms(<<"Eligibility based on order_date, terms based on invoice_date">>)
    ELSE TermsOfRow(matches[1])

\* OrderPolicyEngine._compute_terms
compute_terms(tr, program_id, total, request) ==
    IF tr = <<>>
    THEN DefaultTerms(<<"Eligibility based on order_date, terms based on invoice_date">>)
    ELSE TermsOf(find_best_matches(tr, program_id, total, request.request_date))

DefaultFreight ==
    [mode |-> "CUSTOMER_PAYS_CARRIER_RATE", carrier_required |-> None,
     bill_freight |-> TRUE, freight_amount |-> None, ffa_percent |-> None]

\* "Map CSV policy to API Mode"
ApiMode(mode_val) ==
    IF mode_val = "FFA" THEN "FFA"
    ELSE IF mode_val = "Partial FFA" THEN "PARTIAL_FFA"
    ELSE IF mode_val = "Ex Works" THEN "EX_WORKS"
    ELSE IF Contains(mode_val, "SFT") THEN "SFT_PERCENT"
    ELSE "CUSTOMER_PAYS_CARRIER_RATE"

\* "Filter by customer tier (Specific > Wildcard)"
FilterTier(matches, tier) ==
    IF matches = <<>> THEN matches
    ELSE IF SelectSeq(matches, LAMBDA r : r.customer_tier = tier) # <<>>
         THEN SelectSeq(matches, LAMBDA r : r.customer_tier = tier)
    ELSE SelectSeq(matches, LAMBDA r : r.customer_tier = "")

\* _compute_freight once the matches are filtered
FreightOf(matches) ==
    IF matches = <<>> THEN DefaultFreight
    ELSE [mode |-> ApiMode(matches[1].freight_mode),
          carrier_required |-> matches[1].carrier_required,
          bill_freight |-> matches[1].bill_freight,
          freight_amount |-> None,
          ffa_percent |-> matches[1].ffa_percent]

\* OrderPolicyEngine._compute_freight
compute_freight(fr, program_id, total, request) ==
    IF fr = <<>> THEN DefaultFreight
    ELSE FreightOf(FilterTier(find_best_matches(fr, program_id, total, request.request_date),
                              IF IsSome(request.customer_tier)
                              THEN Upper(Val(request.customer_tier)) ELSE ""))

\* round(n / d) to the nearest integer, ties to even, for n >= 0 and d > 0
RoundHalfEven(n, d) ==
    LET q == n \div d
        r == n % d
    IN IF 2 * r < d THEN q
       ELSE IF 2 * r > d THEN q + 1
       ELSE IF q % 2 = 0 THEN q ELSE q + 1

\* 18% of the total cut down to whole cents instead of rounded
SftAmount_Truncated(total) == 100 * ((total * 18) \div 10000)

\* round(total * 0.18, 2), in money units (whole cents)
SftAmount(total) == 100 * RoundHalfEven(total * 18, 10000)

\* is_expedited of _apply_sports_line_logic
IsExpedited(ship_method) ==
    /\ IsSome(ship_method)
    /\ Val(ship_method) # ""
    /\ \E x \in {"PRIORITY", "OVERNIGHT", "2DAY", "AIR"} :
          Contains(Upper(Val(ship_method)), x)

\* OrderPolicyEngine._apply_sports_line_logic
apply_sports_line_logic(policy, request, total) ==
    IF IsExpedited(request.ship_method)
    THEN [policy EXCEPT !.freight.mode = "CUSTOMER_PAYS_CARRIER_RATE",
                        !.freight.bill_freight = TRUE]
    ELSE [policy EXCEPT !.adjustments = Append(@, [code |-> "SFT_CHG",
                                                   amount |-> SftAmount(total),
                                                   description |-> "18% SFT Charge",
                                                   taxable |-> FALSE]),
                        !.freight.bill_freight = FALSE]

\* "1. International Forwarder Check"
ForwarderHold(program_id, request) ==
    IF /\ IsSome(request.ship_to_type)
       /\ Val(request.ship_to_type) # ""
       /\ Contains(Upper(program_id), "INTERNATIONAL")
       /\ Upper(Val(request.ship_to_type)) # "FORWARDER"
    THEN <<[code |-> "HOLD_INTL_FORWARDER_REQUIRED",
            message |-> "International orders must ship to a freight forwarder.",
            details |-> request.ship_to_type]>>
    ELSE <<>>

\* "Check CSV rule matches": the workflow rows that hold the order
HoldingRows(wr, program_id, request) ==
    SelectSeq(wr, LAMBDA r :
        /\ r.program_id \in {program_id, "ALL"}
        /\ \/ r.match_type = "always"
           \/ r.match_type = "ship_method" /\ request.ship_method = Some(r.match_value))

HoldsOfRows(held) ==
    [i \in 1..Len(held) |->
        [code |-> held[i].hold_code, message |-> held[i].message, details |-> None]]

\* OrderPolicyEngine._compute_holds
compute_holds(wr, program_id, request) ==
    ForwarderHold(program_id, request) \o HoldsOfRows(HoldingRows(wr, program_id, request))

\* the terms without the credit-card override
PolicyTerms_NoOverride(tr, program_id, total, request) ==
    compute_terms(tr, program_id, total, request)

\* "1. Global Overrides" and "2. Compute Terms"
PolicyTerms(tr, program_id, total, request) ==
    IF request.payment_method = Some("CC")
    THEN [DefaultTerms(<<"Credit Card Payment - Immediate Terms">>)
             EXCEPT !.code = "NET_IMMEDIATE", !.net_days = Some(0)]
    ELSE compute_terms(tr, program_id, total, request)

\* the policy after "3. Compute Freight"
BasePolicy(program_id, terms, freight) ==
    [active_program_id |-> program_id, terms |-> terms, freight |-> freight,
     holds |-> <<>>, adjustments |-> <<>>, constraints |-> None]

\* "4. Sports Line SFT Logic"
SportsLineStep(policy, request, total) ==
    IF policy.active_program_id = "SPORTS_LINE"
    THEN apply_sports_line_logic(policy, request, total)
    ELSE policy

\* "5. Compute Holds (Workflow)"
HoldsStep(policy, wr, request) ==
    [policy EXCEPT !.holds = @ \o compute_holds(wr, policy.active_program_id, request)]

\* "6. Trade-In Constraints"
ConstraintsStep(policy, request) ==
    IF IsSome(request.order_type) /\ Val(request.order_type) \in {25, 26}
    THEN [policy EXCEPT !.constraints = Some([no_rebate_stacking |-> TRUE,
                                              no_discount_stacking |-> TRUE])]
    ELSE policy

\* apply_policies once the program is resolved
PolicyOf(program_id, tr, fr, wr, request, total) ==
    ConstraintsStep(
        HoldsStep(
            SportsLineStep(
                BasePolicy(program_id,
                           PolicyTerms(tr, program_id, total, request),
                           compute_freight(fr, program_id, total, request)),
                request, total),
            wr, request),
        request)

\* OrderPolicyEngine.apply_policies: the policy stored in result.policy
apply_policies(prt, tr, fr, wr, request, total, account_groups) ==
    PolicyOf(resolve_program(prt, request.account_id, account_groups, request.order_type),
             tr, fr, wr, request, total)

----------------------------------------------------------------------------
(* Inputs of the model *)

Accounts == {"A1", "A2", "A3"}

\* rows of the Program Map sheet as read, before normalisation
RawMapRows ==
    [MatchValue : {" A1 ", "G1 ", "G2"}, ProgramID : {" GOLD", "SILVER", "  "}]

\* rows of the Group Members sheet as read
RawMemberRows ==
    { [AccountNumber |-> "A1", GroupID |-> "G1"], [AccountNumber |-> "A2", GroupID |-> "G1"],
      [AccountNumber |-> "A2", GroupID |-> "G2"], [AccountNumber |-> "A2", GroupID |-> NA] }

\* program_map.csv: absent, or one row with a blank Program ID
CsvMaps == {<<>>, <<[MatchValue |-> "G2", ProgramID |-> NA]>>}

\* the mapping tables of the pricing and policy specifications
ProgramMap0 ==
    LoadProgramMap(<<[MatchValue |-> " A1 ", ProgramID |-> " GOLD"],
                     [MatchValue |-> "G2", ProgramID |-> "PLATINUM"]>>,
                   <<[MatchValue |-> "G1 ", ProgramID |-> "SILVER"]>>)

GroupMembers0 ==
    LoadGroupMembers(<<[AccountNumber |-> "A2", GroupID |-> "G1"],
                       [AccountNumber |-> "A2", GroupID |-> "G2"]>>, <<>>)

Jan01 == <<2026, 1, 1>>

Jan31 == <<2026, 1, 31>>

Feb01 == <<2026, 2, 1>>

NoMatch == Match(None, None, None, None, None, None, None, None)

\* the rows rules.csv is drawn from
RulePool ==
    { Rule("ST-G1", 10, [NoMatch EXCEPT !.account_group = Some("G1")],
           "set_tier", 0, "GOLD"),
      Rule("ST-S1", 20, [NoMatch EXCEPT !.sku = Some("S1")],
           "set_tier", 0, "SILVER"),
      Rule("ST-A2", 10, [NoMatch EXCEPT !.account = Some("A2")],
           "set_tier", 0, "SILVER"),
      Rule("OVR-JAN", 5, [NoMatch EXCEPT !.sku = Some("S1"), !.start_date = Some(Jan01),
                                         !.end_date = Some(Jan31)],
           "override_unit_price", 26000, "26000"),
      Rule("PCT-25", 10, [NoMatch EXCEPT !.sku = Some("*")],
           "discount_percent", 25, "25"),
      Rule("AMT-FEB", 20, [NoMatch EXCEPT !.sku_prefix = Some("S"), !.start_date = Some(Feb01)],
           "discount_amount", 5000, "5000"),
      Rule("FLR-A2", 15, [NoMatch EXCEPT !.account = Some("A2"), !.min_qty = Some(2)],
           "price_floor", 30000, "30000") }

\* the rows of the matcher specification: the rows above, a row that declares
\* a brand and a row that declares max_qty 0
MatchRulePool ==
    RulePool \cup
    { Rule("BR-X", 30, [NoMatch EXCEPT !.sku = Some("S1"), !.brand = Some("BRAND-X")],
           "discount_percent", 10, "10"),
      Rule("MAXQ-0", 40, [NoMatch EXCEPT !.sku = Some("S2"), !.max_qty = Some(0)],
           "discount_amount", 1000, "1000") }

\* the group strings a caller hands to the matcher: none, or the joined groups
GroupStrs == {None, Some(<<"G1", "G2">>)}

\* a rule of a compiled file that compile_rules did not write: its action value
\* is not the text of a number
BadValueRule ==
    Rule("BAD-V", 12, [NoMatch EXCEPT !.sku = Some("S1")], "discount_percent", 0, "ten")

\* compile_rules: the valid rows sorted by priority (stable)
CompileRules(csv) == SortByPriority(csv)

----------------------------------------------------------------------------
(* Rule compiler *)

\* int(value) succeeds on the text
IsIntText(t) == t \in {"2", "5", "10", "20"}

\* int(value) of such a text
IntOfText(t) == CASE t = "2" -> 2 [] t = "5" -> 5 [] t = "10" -> 10 [] t = "20" -> 20

\* float(value) succeeds on the text
IsFloatText(t) == IsIntText(t) \/ t \in {"12.5"}

\* datetime.fromisoformat(value) succeeds on the text
IsIsoDateText(t) == t \in {"2026-01-01", "2026-01-31"}

VALID_ACTION_TYPES ==
    {"set_tier", "override_unit_price", "discount_percent", "discount_amount", "price_floor"}

\* a row of rules.csv; the columns left out are blank
CsvRow(rule_id, priority, min_qty, start_date, action_type, action_value) ==
    [rule_id |-> rule_id, priority |-> priority, min_qty |-> min_qty,
     start_date |-> start_date, action_type |-> action_type, action_value |-> action_value]

\* an error message of validate_rule: its line and the column it is about
CsvError(line_num, column, text) == [line |-> line_num, column |-> column, text |-> text]

\* validate_rule from the action on; errors holds the date errors found before
ValidateAction(row, line_num, errors) ==
    IF Strip(row.action_type) = ""
    THEN [raised |-> FALSE, rule |-> None,
          errors |-> Append(errors, CsvError(line_num, "action_type", "action_type is required"))]
    ELSE IF Strip(row.action_type) \notin VALID_ACTION_TYPES
    THEN [raised |-> FALSE, rule |-> None,
          errors |-> Append(errors, CsvError(line_num, "action_type", "invalid action_type"))]
    ELSE IF Strip(row.action_value) = ""
    THEN [raised |-> FALSE, rule |-> None,
          errors |-> Append(errors, CsvError(line_num, "action_value", "action_value is required"))]
    ELSE IF Strip(row.action_type) # "set_tier" /\ ~IsFloatText(Strip(row.action_value))
    THEN [raised |-> FALSE, rule |-> None,
          errors |-> Append(errors, CsvError(line_num, "action_value",
                                             "action_value must be numeric"))]
    ELSE IF errors # <<>>
    THEN [raised |-> FALSE, rule |-> None, errors |-> errors]
    ELSE [raised |-> FALSE,
          rule |-> Some([rule_id |-> Strip(row.rule_id), priority |-> IntOfText(Strip(row.priority)),
                         action_type |-> Strip(row.action_type),
                         action_value |-> Strip(row.action_value)]),
          errors |-> <<>>]

\* "Validate dates": the errors are collected and validation goes on
DateErrors(row, line_num) ==
    IF Strip(row.start_date) # "" /\ ~IsIsoDateText(Strip(row.start_date))
    THEN <<CsvError(line_num, "start_date", "start_date must be YYYY-MM-DD format")>>
    ELSE <<>>

\* compile_rules.validate_rule: [raised, rule (Optional), errors]; raised when
\* parse_optional_int lets the ValueError of int() out
validate_rule(row, line_num) ==
    IF Strip(row.rule_id) = ""
    THEN [raised |-> FALSE, rule |-> None,
          errors |-> <<CsvError(line_num, "rule_id", "rule_id is required")>>]
    ELSE IF ~IsIntText(Strip(row.priority))
    THEN [raised |-> FALSE, rule |-> None,
          errors |-> <<CsvError(line_num, "priority", "priority must be an integer")>>]
    ELSE IF Strip(row.min_qty) # "" /\ ~IsIntText(Strip(row.min_qty))
    THEN [raised |-> TRUE, rule |-> None, errors |-> <<>>]
    ELSE ValidateAction(row, line_num, DateErrors(row, line_num))

\* the loop of compile_rules over the rows from line_num on: [raised, rules, errors]
RECURSIVE ValidateRows(_, _, _)
ValidateRows(rows, line_num, acc) ==
    IF rows = <<>> \/ acc.raised THEN acc
    ELSE ValidateRows(Tail(rows), line_num + 1,
            [raised |-> validate_rule(Head(rows), line_num).raised,
             rules |-> IF validate_rule(Head(rows), line_num).errors = <<>>
                          /\ IsSome(validate_rule(Head(rows), line_num).rule)
                       THEN Append(acc.rules, Val(validate_rule(Head(rows), line_num).rule))
                       ELSE acc.rules,
             errors |-> acc.errors \o validate_rule(Head(rows), line_num).errors])

\* compile_rules once the rows are validated
CompileOutcome(v) ==
    IF v.raised
    THEN [raised |-> TRUE, success |-> FALSE, rules |-> <<>>, errors |-> <<>>, written |-> FALSE]
    ELSE IF v.errors # <<>>
    THEN [raised |-> FALSE, success |-> FALSE, rules |-> v.rules, errors |-> v.errors,
          written |-> FALSE]
    ELSE [raised |-> FALSE, success |-> TRUE, rules |-> SortByPriority(v.rules),
          errors |-> <<>>, written |-> TRUE]

\* compile_rules.compile_rules: (success, rules, errors), whether it raised and
\* whether it wrote output_json; csv is Optional (None: the file does not exist)
compile_rules(csv) ==
    IF csv = None
    THEN [raised |-> FALSE, success |-> FALSE, rules |-> <<>>,
          errors |-> <<CsvError(0, "", "Rules file not found")>>, written |-> FALSE]
    ELSE CompileOutcome(ValidateRows(Val(csv), 2,
                                     [raised |-> FALSE, rules |-> <<>>, errors |-> <<>>]))

\* the rows rules.csv is drawn from: valid ones, and rows with one or several faults
CsvRowPool ==
    { CsvRow("R1", "10", "", "", "discount_percent", "10"),
      CsvRow("R2", "5", "2", "2026-01-01", "set_tier", "GOLD"),
      CsvRow("", "10", "", "", "set_tier", "GOLD"),
      CsvRow("R4", "x", "", "", "set_tier", "GOLD"),
      CsvRow("R5", "10", "", "01/31/2026", "price_floor", "12.5"),
      CsvRow("R6", "10", "", "", "", "10"),
      CsvRow("R7", "10", "", "", "bogus", "10"),
      CsvRow("R8", "20", "", "", "discount_amount", "ten"),
      CsvRow("R9", "20", "two", "", "discount_amount", "10"),
      CsvRow("R10", "x", "", "", "", ""),
      CsvRow("R11", "5", "", "01/31/2026", "price_floor", "") }

\* a compiled file left by an earlier run
EarlierCompiled ==
    <<[rule_id |-> "R0", priority |-> 5, action_type |-> "set_tier", action_value |-> "GOLD"]>>

----------------------------------------------------------------------------
(* Rule service *)

\* Rule.from_csv_row then Rule.to_csv_row on a row: a blank priority becomes 50
FromCsvRow(row) ==
    [row EXCEPT !.priority = IF row.priority = "" THEN "50" ELSE row.priority]

\* RulesService.list_rules: the rows that have a rule_id; csv is Optional
list_rules(csv) ==
    IF csv = None THEN <<>>
    ELSE [i \in 1..Len(SelectSeq(Val(csv), LAMBDA r : r.rule_id # "")) |->
             FromCsvRow(SelectSeq(Val(csv), LAMBDA r : r.rule_id # "")[i])]

\* RulesService.get_rule: the first rule of the id, Optional
get_rule(csv, rule_id) ==
    IF SelectSeq(list_rules(csv), LAMBDA r : r.rule_id = rule_id) = <<>> THEN None
    ELSE Some(SelectSeq(list_rules(csv), LAMBDA r : r.rule_id = rule_id)[1])

\* the candidates of _generate_rule_id for a rule without group, account, sku
\* and prefix: "RULE", then "RULE-1", "RULE-2", ...
Candidates == <<"RULE", "RULE-1", "RULE-2", "RULE-3">>

\* RulesService._generate_rule_id: the first candidate that is no existing id
generate_rule_id(csv) ==
    Candidates[CHOOSE k \in 1..Len(Candidates) :
                  /\ get_rule(csv, Candidates[k]) = None
                  /\ \A j \in 1..(k - 1) : get_rule(csv, Candidates[j]) # None]

\* the id create_rule stores the rule under
CreatedId(csv, rule) ==
    IF rule.rule_id = "" THEN generate_rule_id(csv) ELSE rule.rule_id

\* "Apply updates": setattr for every key of updates the Rule has, rule_id included
ApplyUpdates(rule, updates) ==
    [c \in DOMAIN rule |-> IF c \in DOMAIN updates THEN updates[c] ELSE rule[c]]

\* the loop of update_rule: the first rule of the id is updated (break)
RECURSIVE UpdatedRules(_, _, _)
UpdatedRules(rs, rule_id, updates) ==
    IF rs = <<>> THEN <<>>
    ELSE IF Head(rs).rule_id = rule_id THEN <<ApplyUpdates(Head(rs), updates)>> \o Tail(rs)
    ELSE <<Head(rs)>> \o UpdatedRules(Tail(rs), rule_id, updates)

\* the rows a rules.csv written by the service starts with
StoreRowPool ==
    { CsvRow("R1", "10", "", "", "discount_percent", "10"),
      CsvRow("R2", "5", "2", "2026-01-01", "set_tier", "GOLD"),
      CsvRow("R3", "", "", "", "price_floor", "12.5") }

StoreIds == {"R1", "R2", "R3", "RULE"}

\* the rules handed to create_rule: ids of the pool, a new id, no id
NewRulePool ==
    { CsvRow("R1", "20", "", "", "discount_amount", "5"),
      CsvRow("R4", "10", "", "", "set_tier", "GOLD"),
      CsvRow("", "10", "", "", "discount_percent", "10") }

\* the updates handed to update_rule (a dict: any keys)
UpdatePool ==
    { [priority |-> "20", action_value |-> "5"],
      [rule_id |-> "R2"] }

----------------------------------------------------------------------------
(* Reload of the engine *)

\* the attributes PricingEngine.__init__ assigns, in the order it assigns them
LoadOrder == <<"catalog", "program_map", "group_members", "account_intel", "rule_matcher">>

\* the assignments whose read raises on a missing or unreadable file
\* (RuleMatcher catches its own errors)
CanRaise == {"catalog", "program_map", "group_members", "account_intel"}

\* the attributes calculate reads from self, in the order it first reads them
ReadOrder == <<"program_map", "group_members", "account_intel", "catalog", "rule_matcher">>

\* RuleMatcher._load_rules: the active rules of the compiled file
LoadRules(compiled) == SelectSeq(compiled, LAMBDA r : r.active)

Item(sku, qty) == [sku |-> sku, qty |-> qty]

\* request.items, in insertion order
Carts ==
    { <<>>, <<Item("S1", 1)>>, <<Item("S2", 3)>>, <<Item("S1", 3), Item("S2", 1)>>,
      <<Item("SX", 1), Item("S2", 1), Item("S1", 1)>> }

Request(account, items, date, pay, otype, ship, ship_to, ctier) ==
    [account_id |-> account, items |-> items, request_date |-> date,
     payment_method |-> pay, order_type |-> otype, ship_method |-> ship,
     ship_to_type |-> ship_to, customer_tier |-> ctier, item_configs |-> None]

\* request.item_configs: the configuration of the helmet S1, keyed by SKU
ItemConfigs0 ==
    Some(<<[sku |-> "S1", config |-> <<"shell_color", "matte_black">>]>>)

RequestDates == {None} \cup {Some(DateOf(n)) : n \in 0..MaxDay}

\* the requests of the pricing specification
PricingRequests ==
    {Request(a, c, d, None, None, None, None, None) :
        a \in Accounts, c \in Carts, d \in RequestDates}
    \cup {[Request(a, <<Item("S1", 3), Item("S2", 1)>>, None, None, None, None, None, None)
              EXCEPT !.item_configs = ItemConfigs0] : a \in Accounts}

Jan15 == <<2026, 1, 15>>

Oct01 == <<2026, 10, 1>>

ProgramRule(match_type, match_value, program_id, priority) ==
    [match_type |-> match_type, match_value |-> match_value,
     program_id |-> program_id, priority |-> priority]

\* the rows program_rules.csv is drawn from (read with dtype=str and neither
\* filled nor stripped: the last row has a blank program_id cell)
ProgramRulePool ==
    { ProgramRule("order_type", "25", "TRADE_IN", "10"),
      ProgramRule("order_type", "26", "TRADE_IN", "10"),
      ProgramRule("account_id", "A1", "SPORTS_LINE", "5"),
      ProgramRule("group_id", "G1", "BSN", "10"),
      ProgramRule("group_id", "G2", "INTERNATIONAL_DEALER", "5"),
      ProgramRule("account_id", "A3", NA, "5") }

TermsRule(program_id, min_total, max_total, start_date, end_date, code, net_days, due) ==
    [program_id |-> program_id, min_total |-> min_total, max_total |-> max_total,
     start_date |-> start_date, end_date |-> end_date, terms_code |-> code,
     net_days |-> net_days, dated_due_date |-> due,
     needs_review |-> (code = "CIA"),
     review_reason |-> IF code = "CIA" THEN Some("Credit review") ELSE None]

\* terms_rules.csv: absent, or a table with program rows and STANDARD rows
TermsTables ==
    { <<>>,
      << TermsRule("BSN", None, None, Some(Jan15), Some(Jan31), "DATED", None, Some(Oct01)),
         TermsRule("SPORTS_LINE", None, Some(60000), None, None, "CIA", None, None),
         TermsRule("STANDARD", Some(0), Some(60000), None, None, "NET_45", Some(45), None),
         TermsRule("STANDARD", Some(60001), None, None, None, "NET_60", Some(60), None) >> }

FreightRule(program_id, min_total, customer_tier, mode, bill) ==
    [program_id |-> program_id, min_total |-> min_total, max_total |-> None,
     start_date |-> None, end_date |-> None, customer_tier |-> customer_tier,
     freight_mode |-> mode, bill_freight |-> bill, ffa_percent |-> None,
     carrier_required |-> None]

\* freight_rules.csv: absent, or a table
FreightTables ==
    { <<>>,
      << FreightRule("SPORTS_LINE", None, "", "SFT 18%", TRUE),
         FreightRule("BSN", None, "", "FFA", FALSE),
         FreightRule("STANDARD", Some(40000), "PLATINUM", "FFA", FALSE),
         FreightRule("STANDARD", Some(100000), "", "Partial FFA", FALSE),
         FreightRule("STANDARD", None, "GOLD", "Ex Works", TRUE) >> }

WorkflowRule(program_id, match_type, match_value, hold_code) ==
    [program_id |-> program_id, match_type |-> match_type, match_value |-> match_value,
     hold_code |-> hold_code, message |-> hold_code]

\* workflow_rules.csv: absent, or a table
WorkflowTables ==
    { <<>>,
      << WorkflowRule("ALL", "ship_method", "GROUND", "HOLD_GROUND"),
         WorkflowRule("SPORTS_LINE", "always", "", "HOLD_SPORTSLINE") >> }

\* the policy directories: each table absent or present
PolicyDirs ==
    { [terms |-> t, freight |-> f, workflow |-> w] :
        t \in TermsTables, f \in FreightTables, w \in WorkflowTables }

EmptyPolicyDir == [terms |-> <<>>, freight |-> <<>>, workflow |-> <<>>]

PolicyCarts == {<<Item("S1", 1)>>, <<Item("S1", 3), Item("S2", 1)>>}

\* the requests of the policy specification: the payment, order type and date
\* vary on ground shipments, and the shipping context on purchase orders
PolicyRequests ==
    {Request(a, c, d, pay, ot, Some("GROUND"), None, None) :
        a \in Accounts, c \in PolicyCarts, d \in {None, Some(DateOf(0))},
        pay \in {None, Some("CC")}, ot \in {None, Some(25), Some(26)}}
    \cup
    {Request(a, c, None, pay, None, ship, st, ct) :
        a \in Accounts, c \in PolicyCarts, pay \in {None, Some("CC")},
        ship \in {None, Some("PRIORITY OVERNIGHT"), Some("2day air")},
        st \in {None, Some("RESIDENTIAL")}, ct \in {None, Some("platinum")}}

\* the account_groups a caller hands to apply_policies
GroupLists == {<<>>, <<"G1">>, <<"G1", "G2">>}

----------------------------------------------------------------------------
(* Operations *)

\* engine.calculate(request): the caller prices its request (again)
Calculate(r) ==
    /\ req \in {None, Some(r)}
    /\ req' = Some(r)
    /\ result' = Some(calculate(program_map, group_members, rules_loaded, rules, now, r))
    /\ first' = IF IsSome(first) THEN first ELSE result'
    /\ UNCHANGED <<tables, now, tier_out, aux>>

\* policy_engine.apply_policies(request, result, account_groups) on a fresh Result
ApplyPolicies(groups) ==
    /\ IsSome(result)
    /\ ~Val(result).raised
    /\ Val(result).policy = None
    /\ result' = Some([Val(result) EXCEPT !.policy =
                          Some(apply_policies(program_rules, terms_rules, freight_rules,
                                              workflow_rules, Val(req), Val(result).total,
                                              groups))])
    /\ terms_rules' = SharedTableAfter(terms_rules,
                           resolve_program(program_rules, Val(req).account_id, groups,
                                           Val(req).order_type),
                           Val(result).total, Val(req).request_date)
    /\ freight_rules' = SharedTableAfter(freight_rules,
                           resolve_program(program_rules, Val(req).account_id, groups,
                                           Val(req).order_type),
                           Val(result).total, Val(req).request_date)
    /\ UNCHANGED <<program_map, group_members, rules_loaded, rules, program_rules,
                   workflow_rules, now, req, first, tier_out, aux>>

\* a day passes on the wall clock
Tick ==
    /\ now < MaxDay
    /\ now' = now + 1
    /\ UNCHANGED <<tables, req, result, first, tier_out, aux>>

\* engine.get_account_tier(account_id)
GetAccountTier(a) ==
    /\ tier_out' = Some([account |-> a, traced |-> FALSE, raised |-> FALSE,
                         tier |-> get_account_tier(program_map, group_members, a),
                         trace |-> <<>>])
    /\ UNCHANGED <<tables, now, req, result, first, aux>>

\* engine.get_account_tier_with_trace(account_id)
GetAccountTierWithTrace(a) ==
    /\ LET tt == get_account_tier_with_trace(program_map, group_members, a)
       IN tier_out' = Some([account |-> a, traced |-> TRUE, raised |-> tt.raised,
                            tier |-> tt.tier, trace |-> tt.trace])
    /\ UNCHANGED <<tables, now, req, result, first, aux>>

\* rule_matcher.find_matching_rules(account_id, account_group, sku, qty, request_date)
FindMatchingRules(account_id, account_group, sku, qty, request_date) ==
    /\ match_out = None
    /\ match_out' = Some([account_id |-> account_id, account_group |-> account_group,
                          sku |-> sku, qty |-> qty, request_date |-> request_date,
                          clock |-> now,
                          matched |-> find_matching_rules(rules_loaded, rules, account_id,
                                                          account_group, sku, qty,
                                                          request_date, now)])
    /\ UNCHANGED <<tables, now, req, result, first, tier_out, price_out,
                   rules_csv, compiled_json, compile_out, svc_out, snapshot>>

\* rule_matcher.apply_rule_to_price(rule, base_price, current_tier)
ApplyRuleToPrice(rule, base_price, current_tier) ==
    /\ price_out' = Some([rule |-> rule, base_price |-> base_price,
                          current_tier |-> current_tier,
                          new_price |-> apply_rule_to_price(rule, base_price,
                                                            current_tier).price,
                          new_tier |-> apply_rule_to_price(rule, base_price,
                                                           current_tier).tier])
    /\ UNCHANGED <<tables, now, req, result, first, tier_out, match_out,
                   rules_csv, compiled_json, compile_out, svc_out, snapshot>>

\* compile_rules(rules_csv, output_json), as the compiler's main() calls it
CompileRulesRun ==
    /\ compile_out' = Some(compile_rules(rules_csv))
    /\ compiled_json' = IF compile_rules(rules_csv).written
                        THEN Some(compile_rules(rules_csv).rules)
                        ELSE compiled_json
    /\ UNCHANGED <<tables, now, req, result, first, tier_out, match_out, price_out, rules_csv,
                   svc_out, snapshot>>

\* what a RulesService call that got as far as _write_rules leaves: the rows
\* written, and the files after the compile script has run on them
ServiceWrites(rows) ==
    /\ rules_csv' = Some(rows)
    /\ compile_out' = Some(compile_rules(Some(rows)))
    /\ compiled_json' = IF compile_rules(Some(rows)).written
                        THEN Some(compile_rules(Some(rows)).rules)
                        ELSE compiled_json

\* what a RulesService call that raised ValueError leaves
ServiceRaises == UNCHANGED <<rules_csv, compile_out, compiled_json>>

\* rules_service.create_rule(rule)
CreateRule(rule) ==
    /\ Len(list_rules(rules_csv)) < MaxStoreRows
    /\ svc_out' = Some([op |-> "create", rule_id |-> rule.rule_id,
                        raised |-> get_rule(rules_csv, CreatedId(rules_csv, rule)) # None])
    /\ IF get_rule(rules_csv, CreatedId(rules_csv, rule)) # None
       THEN ServiceRaises
       ELSE ServiceWrites(Append(list_rules(rules_csv),
                                 [rule EXCEPT !.rule_id = CreatedId(rules_csv, rule)]))
    /\ UNCHANGED <<tables, now, req, result, first, tier_out, match_out, price_out,
                   snapshot>>

\* rules_service.update_rule(rule_id, updates)
UpdateRule(rule_id, updates) ==
    /\ svc_out' = Some([op |-> "update", rule_id |-> rule_id,
                        raised |-> get_rule(rules_csv, rule_id) = None])
    /\ IF get_rule(rules_csv, rule_id) = None
       THEN ServiceRaises
       ELSE ServiceWrites(UpdatedRules(list_rules(rules_csv), rule_id, updates))
    /\ UNCHANGED <<tables, now, req, result, first, tier_out, match_out, price_out,
                   snapshot>>

\* rules_service.delete_rule(rule_id)
DeleteRule(rule_id) ==
    /\ svc_out' = Some([op |-> "delete", rule_id |-> rule_id,
                        raised |-> get_rule(rules_csv, rule_id) = None])
    /\ IF get_rule(rules_csv, rule_id) = None
       THEN ServiceRaises
       ELSE ServiceWrites(SelectSeq(list_rules(rules_csv), LAMBDA r : r.rule_id # rule_id))
    /\ UNCHANGED <<tables, now, req, result, first, tier_out, match_out, price_out,
                   snapshot>>

\* what the steps of reload_data and of a calculate running beside it leave alone
calls == <<now, req, result, first, tier_out, match_out, price_out, rules_csv, compiled_json,
           compile_out, svc_out>>

\* the data files are rewritten on disk (no reload running)
EditData ==
    /\ reload_pc = 0
    /\ disk < MaxVersion
    /\ disk' = disk + 1
    /\ UNCHANGED <<tables, calls, engine, reload_pc, reload_out, calc_seen>>

\* reload_data is called: self.__init__(self.settings) starts on the live engine
ReloadStart ==
    /\ reload_pc = 0
    /\ reload_pc' = 1
    /\ reload_out' = Some([before |-> engine, status |-> "running"])
    /\ UNCHANGED <<tables, calls, disk, engine, calc_seen>>

\* the next assignment of __init__: self.<attribute> = what is read from disk
ReloadAssign ==
    /\ reload_pc \in 1..Len(LoadOrder)
    /\ engine' = [engine EXCEPT ![LoadOrder[reload_pc]] = disk]
    /\ reload_pc' = IF reload_pc = Len(LoadOrder) THEN 0 ELSE reload_pc + 1
    /\ reload_out' = IF reload_pc = Len(LoadOrder)
                     THEN Some([Val(reload_out) EXCEPT !.status = "done"])
                     ELSE reload_out
    /\ UNCHANGED <<tables, calls, disk, calc_seen>>

\* the next read of __init__ raises (a missing or unreadable file): reload_data fails
ReloadFails ==
    /\ reload_pc \in 1..Len(LoadOrder)
    /\ LoadOrder[reload_pc] \in CanRaise
    /\ reload_pc' = 0
    /\ reload_out' = Some([Val(reload_out) EXCEPT !.status = "failed"])
    /\ UNCHANGED <<tables, calls, disk, engine, calc_seen>>

\* calculate is called on the live engine
CalculateStart ==
    /\ IF IsSome(calc_seen) THEN Len(Val(calc_seen)) = Len(ReadOrder) ELSE TRUE
    /\ calc_seen' = Some(<<>>)
    /\ UNCHANGED <<tables, calls, disk, engine, reload_pc, reload_out>>

\* the next attribute calculate reads from self
CalculateRead ==
    /\ IsSome(calc_seen)
    /\ Len(Val(calc_seen)) < Len(ReadOrder)
    /\ calc_seen' = Some(Append(Val(calc_seen),
                                [table |-> ReadOrder[Len(Val(calc_seen)) + 1],
                                 version |-> engine[ReadOrder[Len(Val(calc_seen)) + 1]]]))
    /\ UNCHANGED <<tables, calls, disk, engine, reload_pc, reload_out>>

----------------------------------------------------------------------------
(* Specifications *)

\* no call made yet
InitCallVars ==
    /\ now = 0
    /\ req = None
    /\ result = None
    /\ first = None
    /\ tier_out = None
    /\ match_out = None
    /\ price_out = None

\* no rule file looked at yet
InitFiles ==
    /\ rules_csv = None
    /\ compiled_json = None
    /\ compile_out = None
    /\ svc_out = None

\* an engine constructed from the files on disk, no reload and no call running
InitSnapshot ==
    /\ disk = 0
    /\ engine = [t \in Range(LoadOrder) |-> 0]
    /\ reload_pc = 0
    /\ reload_out = None
    /\ calc_seen = None

InitCalls == InitCallVars /\ InitFiles /\ InitSnapshot

InitPolicyTables(dir) ==
    /\ terms_rules = dir.terms
    /\ freight_rules = dir.freight
    /\ workflow_rules = dir.workflow

FullPolicyDir ==
    CHOOSE dir \in PolicyDirs : dir.terms # <<>> /\ dir.freight # <<>> /\ dir.workflow # <<>>

\* the pricing specification: any compiled rule file, fixed mapping and policy tables
Init ==
    /\ program_map = ProgramMap0
    /\ group_members = GroupMembers0
    /\ \/ /\ rules_loaded = FALSE
          /\ rules = <<>>
       \/ /\ rules_loaded = TRUE
          /\ \E csv \in DistinctSeqUpTo(RulePool, MaxRules) :
                rules = LoadRules(CompileRules(csv))
    /\ program_rules = <<>>
    /\ InitPolicyTables(FullPolicyDir)
    /\ InitCalls

Next ==
    \/ \E r \in PricingRequests : Calculate(r)
    \/ Tick

Spec == Init /\ [][Next]_vars

\* the rule application specification: any compiled rule file, written by
\* compile_rules or not
InitApply ==
    /\ program_map = ProgramMap0
    /\ group_members = GroupMembers0
    /\ rules_loaded = TRUE
    /\ \E file \in DistinctSeqUpTo(RulePool \cup {BadValueRule}, MaxRules) :
          rules = LoadRules(SortByPriority(file))
    /\ program_rules = <<>>
    /\ InitPolicyTables(FullPolicyDir)
    /\ InitCalls

NextApply ==
    \/ \E r \in PricingRequests : Calculate(r)
    \/ Tick

SpecApply == InitApply /\ [][NextApply]_vars

\* the compiler specification: any rules.csv (or none), a compiled file of an
\* earlier run or none
InitCompile ==
    /\ program_map = ProgramMap0
    /\ group_members = GroupMembers0
    /\ rules_loaded = FALSE
    /\ rules = <<>>
    /\ program_rules = <<>>
    /\ InitPolicyTables(FullPolicyDir)
    /\ InitCallVars
    /\ rules_csv \in {None} \cup {Some(rows) : rows \in SeqUpTo(CsvRowPool, MaxCsvRows)}
    /\ compiled_json \in {None, Some(EarlierCompiled)}
    /\ compile_out = None
    /\ svc_out = None
    /\ InitSnapshot

NextCompile == CompileRulesRun

SpecCompile == InitCompile /\ [][NextCompile]_vars

\* the rule service specification: a rules.csv whose ids are pairwise distinct
\* (or no file), then any create, update and delete
InitService ==
    /\ program_map = ProgramMap0
    /\ group_members = GroupMembers0
    /\ rules_loaded = FALSE
    /\ rules = <<>>
    /\ program_rules = <<>>
    /\ InitPolicyTables(FullPolicyDir)
    /\ InitCallVars
    /\ rules_csv \in {None} \cup {Some(rows) : rows \in DistinctSeqUpTo(StoreRowPool, MaxCsvRows)}
    /\ compiled_json = None
    /\ compile_out = None
    /\ svc_out = None
    /\ InitSnapshot

NextService ==
    \/ \E rule \in NewRulePool : CreateRule(rule)
    \/ \E id \in StoreIds, updates \in UpdatePool : UpdateRule(id, updates)
    \/ \E id \in StoreIds : DeleteRule(id)

SpecService == InitService /\ [][NextService]_vars

\* the reload specification: the data files change, reload_data and calculate
\* run on the one live engine, their attribute accesses interleaved
InitReload ==
    /\ program_map = ProgramMap0
    /\ group_members = GroupMembers0
    /\ rules_loaded = FALSE
    /\ rules = <<>>
    /\ program_rules = <<>>
    /\ InitPolicyTables(FullPolicyDir)
    /\ InitCalls

NextReload ==
    \/ EditData
    \/ ReloadStart
    \/ ReloadAssign
    \/ ReloadFails
    \/ CalculateStart
    \/ CalculateRead

SpecReload == InitReload /\ [][NextReload]_vars

\* the tier specification: any mapping tables
InitTier ==
    /\ \E sheet \in SeqUpTo(RawMapRows, MaxMapRows), csv \in CsvMaps :
          program_map = LoadProgramMap(sheet, csv)
    /\ \E sheet \in SeqUpTo(RawMemberRows, MaxMemberRows) :
          group_members = LoadGroupMembers(sheet, <<>>)
    /\ rules_loaded = FALSE
    /\ rules = <<>>
    /\ program_rules = <<>>
    /\ InitPolicyTables(FullPolicyDir)
    /\ InitCalls

NextTier ==
    \/ \E a \in Accounts \cup {" A1 "} : GetAccountTier(a)
    \/ \E a \in Accounts \cup {" A1 "} : GetAccountTierWithTrace(a)

SpecTier == InitTier /\ [][NextTier]_vars

\* compiled rules whose action value validate_rule accepts (any text float()
\* takes) though it is negative or a percentage above 100
WideValuePool ==
    { Rule("OVR-NEG", 10, [NoMatch EXCEPT !.sku = Some("S1")],
           "override_unit_price", -5000, "-5000"),
      Rule("PCT-150", 10, [NoMatch EXCEPT !.sku = Some("S2")],
           "discount_percent", 150, "150"),
      Rule("AMT-BIG", 10, [NoMatch EXCEPT !.sku = Some("S1")],
           "discount_amount", 60000, "60000") }

\* the matched rules, base prices and tiers apply_rule_to_price is called with
MatchedRules == {MatchedRule(r) : r \in RulePool \cup WideValuePool}

BasePrices == {0, 8000, 25000, 30000, 32000, 40000, 48000}

CurrentTiers == {"MSRP", "GOLD"}

\* the rule application arithmetic: any matched rule on any base price
InitPrice ==
    /\ program_map = ProgramMap0
    /\ group_members = GroupMembers0
    /\ rules_loaded = TRUE
    /\ rules = <<>>
    /\ program_rules = <<>>
    /\ InitPolicyTables(FullPolicyDir)
    /\ InitCalls

NextPrice ==
    \E rule \in MatchedRules, base_price \in BasePrices, current_tier \in CurrentTiers :
        ApplyRuleToPrice(rule, base_price, current_tier)

SpecPrice == InitPrice /\ [][NextPrice]_vars

\* the pricing specification over compiled rules of any accepted action value
InitWide ==
    /\ program_map = ProgramMap0
    /\ group_members = GroupMembers0
    /\ rules_loaded = TRUE
    /\ \E csv \in DistinctSeqUpTo(RulePool \cup WideValuePool, MaxRules) :
          rules = LoadRules(CompileRules(csv))
    /\ program_rules = <<>>
    /\ InitPolicyTables(FullPolicyDir)
    /\ InitCalls

NextWide ==
    \/ \E r \in PricingRequests : Calculate(r)
    \/ Tick

SpecWide == InitWide /\ [][NextWide]_vars

\* the matcher specification: any compiled rule file, any day
InitMatch ==
    /\ program_map = ProgramMap0
    /\ group_members = GroupMembers0
    /\ rules_loaded = TRUE
    /\ \E csv \in DistinctSeqUpTo(MatchRulePool, MaxRules) :
          rules = LoadRules(CompileRules(csv))
    /\ program_rules = <<>>
    /\ InitPolicyTables(FullPolicyDir)
    /\ InitCalls

NextMatch ==
    \/ \E a \in Accounts, g \in GroupStrs, sku \in {"S1", "S2"}, qty \in {1, 3},
          d \in RequestDates :
          FindMatchingRules(a, g, sku, qty, d)
    \/ Tick

SpecMatch == InitMatch /\ [][NextMatch]_vars

\* the policy specification: any program rules and policy directory
InitPolicy ==
    /\ program_map = ProgramMap0
    /\ group_members = GroupMembers0
    /\ rules_loaded = FALSE
    /\ rules = <<>>
    /\ program_rules \in DistinctSeqUpTo(ProgramRulePool, MaxProgRows)
    /\ \E dir \in {EmptyPolicyDir, FullPolicyDir} : InitPolicyTables(dir)
    /\ InitCalls

NextPolicy ==
    \/ \E r \in PolicyRequests : Calculate(r)
    \/ \E groups \in GroupLists : ApplyPolicies(groups)

SpecPolicy == InitPolicy /\ [][NextPolicy]_vars

----------------------------------------------------------------------------
(* Properties of the tier resolver *)

\* C1 as stated: whatever the account and the mapping tables, the resolver
\* returns (it does not raise) a tier that is not empty and not null, that is
\* "MSRP" or the target of a mapping row, and that is "MSRP" when the account has
\* no direct mapping and none of its groups is mapped.
C1_TierIsDefined ==
    IsSome(tier_out) =>
        LET t == Val(tier_out)
            account_id == Strip(t.account)
            groups == { group_members[i].GroupID : i \in
                          { j \in 1..Len(group_members) :
                              group_members[j].AccountNumber = account_id } }
            mapped == { program_map[i].MatchValue : i \in 1..Len(program_map) }
        IN /\ ~t.raised
           /\ t.tier \notin {"", "nan", NA}
           /\ \/ t.tier = "MSRP"
              \/ \E i \in 1..Len(program_map) : program_map[i].ProgramID = t.tier
           /\ (account_id \notin mapped /\ groups \cap mapped = {}) => t.tier = "MSRP"

----------------------------------------------------------------------------
(* Properties of the pricing engine *)

\* a step in which calculate is called and returns
CalculateStep == \E r \in PricingRequests : Calculate(r)

PriceRuleIds == { r.rule_id : r \in { x \in RulePool : x.action.type \in PriceActions } }

SetTierIds == { r.rule_id : r \in { x \in RulePool : x.action.type = "set_tier" } }

RuleById(id) == CHOOSE r \in RulePool : r.rule_id = id

\* the first catalog row of a SKU
CatalogRow(sku) ==
    Catalog[CHOOSE j \in 1..Len(Catalog) :
                /\ Catalog[j].SKU = sku
                /\ \A k \in 1..(j - 1) : Catalog[k].SKU # sku]

\* does loaded rule r match the line of the request on the given day
MatchesLine(r, request, line, day) ==
    RuleMatches(r, Strip(request.account_id),
                GroupStr(group_members, Strip(request.account_id)),
                line.sku, line.quantity, day)

\* the matching set_tier rule first in priority order (file order on ties), Optional
SetTierWinner(request, line, day) ==
    LET idx == { i \in 1..Len(rules) :
                   /\ rules[i].action.type = "set_tier"
                   /\ MatchesLine(rules[i], request, line, day) }
    IN IF idx = {} THEN None
       ELSE Some(rules[CHOOSE i \in idx : \A j \in idx :
                          \/ rules[i].priority < rules[j].priority
                          \/ rules[i].priority = rules[j].priority /\ i <= j])

\* the tier at which the price of the line is to be looked up
LookupTier(res, request, line, day) ==
    IF IsSome(SetTierWinner(request, line, day))
    THEN Val(SetTierWinner(request, line, day)).action.str
    ELSE res.tier

\* the price before any price-modifying rule: the tier price, else the MSRP
BasePrice(sku, tier) ==
    IF IsSome(TierPrice(CatalogRow(sku), tier))
    THEN Val(TierPrice(CatalogRow(sku), tier))
    ELSE CatalogRow(sku).MSRP

\* the actions of the rules named by ids composed left to right from price p
RECURSIVE Stacked(_, _)
Stacked(ids, p) ==
    IF ids = <<>> THEN p
    ELSE Stacked(Tail(ids),
                 apply_rule_to_price(MatchedRule(RuleById(Head(ids))), p, "").price)

\* the ids of rules_applied that name price-modifying rules, in order
PriceRulesApplied(line) == SelectSeq(line.rules_applied, LAMBDA id : id \in PriceRuleIds)

\* C2 for one Result returned on the given day
StacksInPriorityOrder(res, request, day) ==
    \A i \in 1..Len(res.lines) :
        LET line == res.lines[i]
            applied == PriceRulesApplied(line)
            matching == { r \in Range(rules) :
                            /\ r.action.type \in PriceActions
                            /\ MatchesLine(r, request, line, day) }
        IN /\ Range(applied) = { r.rule_id : r \in matching }
           /\ Len(applied) = Cardinality(matching)
           /\ \A j, k \in 1..Len(applied) :
                 j < k => RuleById(applied[j]).priority <= RuleById(applied[k]).priority
           /\ line.unit_price =
                 Stacked(applied, BasePrice(line.sku, LookupTier(res, request, line, day)))
           /\ line.extended_price = line.unit_price * line.quantity

\* C2: every price-modifying rule that matches a line is applied to it, in
\* ascending priority number, each on the price the previous one produced, so
\* that the unit price is the composition of the rule actions from the
\* tier/MSRP base price.
C2_PriceRulesStack ==
    [][CalculateStep => StacksInPriorityOrder(Val(result'), Val(req'), DateOf(now))]_vars

\* a line on which two price-modifying rules were applied
C2_Witness ==
    /\ IsSome(result)
    /\ \E i \in 1..Len(Val(result).lines) :
          /\ Len(PriceRulesApplied(Val(result).lines[i])) >= 2
          /\ Val(result).lines[i].unit_price
                # BasePrice(Val(result).lines[i].sku, Val(result).lines[i].tier_used)

\* C3 for one Result returned on the given day
FirstSetTierOnly(res, request, day) ==
    \A i \in 1..Len(res.lines) :
        LET line == res.lines[i]
            winner == SetTierWinner(request, line, day)
            tier == LookupTier(res, request, line, day)
            tiers_set == SelectSeq(line.rules_applied, LAMBDA id : id \in SetTierIds)
        IN /\ tiers_set = IF IsSome(winner) THEN <<Val(winner).rule_id>> ELSE <<>>
           /\ IsSome(winner) => line.rules_applied[1] = Val(winner).rule_id
           /\ line.tier_used = IF IsSome(TierPrice(CatalogRow(line.sku), tier))
                               THEN tier ELSE "MSRP"
           /\ line.unit_price = Stacked(PriceRulesApplied(line), BasePrice(line.sku, tier))

\* C3: of the set_tier rules matching a line only the first in priority order
\* (file order on ties) is applied: it is the only set_tier id in rules_applied,
\* it comes before every price rule there, and the price the price rules start
\* from is the one looked up at its tier.
C3_FirstSetTierWins ==
    [][CalculateStep => FirstSetTierOnly(Val(result'), Val(req'), DateOf(now))]_vars

\* two set_tier rules match a line of account A2 and only the first was applied
C3_Witness ==
    /\ IsSome(result)
    /\ Val(req).account_id = "A2"
    /\ Cardinality({ r \in Range(rules) : r.rule_id \in {"ST-G1", "ST-S1", "ST-A2"} }) = 2
    /\ \E i \in 1..Len(Val(result).lines) :
          /\ Val(result).lines[i].sku = "S1"
          /\ Len(Val(result).lines[i].rules_applied) = 1
          /\ Val(result).lines[i].rules_applied[1] = rules[1].rule_id

MsrpWarning(sku) == <<"MSRP fallback used for SKU", sku>>

\* has the SKU of the line no populated price at the tier it is looked up at
NoTierPrice(res, request, line, day) ==
    ~IsSome(TierPrice(CatalogRow(line.sku), LookupTier(res, request, line, day)))

\* C4 as stated, for one Result returned on the given day
FallsBackToMsrp(res, request, day) ==
    \A i \in 1..Len(res.lines) :
        NoTierPrice(res, request, res.lines[i], day) =>
            /\ res.lines[i].unit_price = CatalogRow(res.lines[i].sku).MSRP
            /\ res.lines[i].source = "MSRP"
            /\ res.lines[i].tier_used = "MSRP"
            /\ MsrpWarning(res.lines[i].sku) \in Range(res.lines[i].warnings)
            /\ MsrpWarning(res.lines[i].sku) \in Range(res.warnings)

\* C4 as stated: a line whose SKU has no price at the effective tier has the
\* catalog MSRP as unit price, source "MSRP", tier_used "MSRP" and the fallback
\* warning, on the line and on the Result.
C4_MsrpFallback_AsStated ==
    [][CalculateStep => FallsBackToMsrp(Val(result'), Val(req'), DateOf(now))]_vars

\* C4 as the code has it, for one Result returned on the given day
FallsBackToMsrpBase(res, request, day) ==
    \A i \in 1..Len(res.lines) :
        NoTierPrice(res, request, res.lines[i], day) =>
            /\ res.lines[i].tier_used = "MSRP"
            /\ MsrpWarning(res.lines[i].sku) \in Range(res.lines[i].warnings)
            /\ MsrpWarning(res.lines[i].sku) \in Range(res.warnings)
            /\ IF PriceRulesApplied(res.lines[i]) = <<>>
               THEN /\ res.lines[i].unit_price = CatalogRow(res.lines[i].sku).MSRP
                    /\ res.lines[i].source = "MSRP"
               ELSE /\ res.lines[i].unit_price =
                          Stacked(PriceRulesApplied(res.lines[i]),
                                  CatalogRow(res.lines[i].sku).MSRP)
                    /\ res.lines[i].source = "Rule"

\* C4, amended: a line whose SKU has no price at the effective tier has tier_used
\* "MSRP" and the fallback warning, on the line and on the Result; its unit price
\* is the catalog MSRP and its source "MSRP" when no price-modifying rule matches
\* the line, and otherwise the rules are applied to the MSRP and the source is "Rule".
C4_MsrpFallback ==
    [][CalculateStep => FallsBackToMsrpBase(Val(result'), Val(req'), DateOf(now))]_vars

\* a line that fell back to the MSRP and was then repriced by a rule
C4_Witness ==
    /\ IsSome(result)
    /\ \E i \in 1..Len(Val(result).lines) :
          /\ Val(result).lines[i].tier_used = "MSRP"
          /\ MsrpWarning(Val(result).lines[i].sku) \in Range(Val(result).warnings)
          /\ Val(result).lines[i].source = "Rule"
          /\ Val(result).lines[i].unit_price # CatalogRow(Val(result).lines[i].sku).MSRP

\* the rule with its date conditions removed
Undated(r) == [r EXCEPT !.match.start_date = None, !.match.end_date = None]

\* is the day within [start_date, end_date] of the rule, both inclusive
InDateRange(r, day) ==
    /\ IsSome(r.match.start_date) => ~DateLess(day, Val(r.match.start_date))
    /\ IsSome(r.match.end_date) => ~DateLess(Val(r.match.end_date), day)

\* C5 for one Result
GatedByRequestDate(res, request) ==
    IsSome(request.request_date) =>
        \A i \in 1..Len(res.lines) : \A r \in Range(rules) :
            ( /\ r.action.type \in PriceActions
              /\ IsSome(r.match.start_date) \/ IsSome(r.match.end_date)
              /\ MatchesLine(Undated(r), request, res.lines[i], Val(request.request_date)) )
            => ( r.rule_id \in Range(res.lines[i].rules_applied)
                    <=> InDateRange(r, Val(request.request_date)) )

\* C5 as stated: in calculate a price rule with a date range whose other
\* conditions match a line is applied to it if and only if the request's
\* request_date lies in [start_date, end_date], whatever the wall-clock date.
C5_GatedByRequestDate ==
    [][CalculateStep => GatedByRequestDate(Val(result'), Val(req'))]_vars

\* C6 as stated: with unchanged reference data every call of calculate with the
\* same request returns the Result the first call returned, whatever the date
\* of the call.
C6_Idempotent ==
    (IsSome(first) /\ IsSome(result)) => Val(result) = Val(first)

----------------------------------------------------------------------------
(* Properties of the policy engine *)

\* C7 as stated: the Result calculate returns carries a policy (program id,
\* terms, freight, holds, adjustments, constraints) computed from its total.
C7_ResultCarriesPolicy ==
    [][(\E r \in PolicyRequests : Calculate(r)) => IsSome(Val(result').policy)]_vars

HasPolicy == IsSome(result) /\ IsSome(Val(result).policy)

Policy == Val(Val(result).policy)

\* C8: a request paid by credit card ("CC") has terms NET_IMMEDIATE with
\* net_days 0 in its policy, whatever the program, total, date and terms table.
C8_CreditCardTerms ==
    (HasPolicy /\ Val(req).payment_method = Some("CC")) =>
        /\ Policy.terms.code = "NET_IMMEDIATE"
        /\ Policy.terms.net_days = Some(0)

\* a credit-card order of a program whose terms row would give CIA
C8_Witness ==
    /\ HasPolicy
    /\ Val(req).payment_method = Some("CC")
    /\ terms_rules # <<>>
    /\ Policy.active_program_id = "SPORTS_LINE"
    /\ Val(result).total <= 60000
    /\ Policy.terms.code = "NET_IMMEDIATE"

\* the ship methods naming an expedited carrier (PRIORITY, OVERNIGHT, 2DAY or AIR
\* in them, in any letter case)
ExpeditedMethods == {"PRIORITY OVERNIGHT", "2day air"}

ShipsExpedited(request) ==
    IsSome(request.ship_method) /\ Val(request.ship_method) \in ExpeditedMethods

\* the policy of a SPORTS_LINE order but for the amount of its adjustment
SportsLineShape ==
    IF ShipsExpedited(Val(req))
    THEN /\ Policy.adjustments = <<>>
         /\ Policy.freight.mode = "CUSTOMER_PAYS_CARRIER_RATE"
         /\ Policy.freight.bill_freight = TRUE
    ELSE /\ Len(Policy.adjustments) = 1
         /\ Policy.adjustments[1].code = "SFT_CHG"
         /\ Policy.adjustments[1].taxable = FALSE
         /\ Policy.freight.bill_freight = FALSE

\* C9 as stated: under program SPORTS_LINE a non-expedited order has exactly one
\* adjustment, SFT_CHG, not taxable, of exactly 18% of the total, and
\* bill_freight false; an expedited one has no adjustment, pays the carrier
\* rate and has bill_freight true.
C9_SportsLine_AsStated ==
    (HasPolicy /\ Policy.active_program_id = "SPORTS_LINE") =>
        /\ SportsLineShape
        /\ ~ShipsExpedited(Val(req)) =>
              100 * Policy.adjustments[1].amount = 18 * Val(result).total

\* C9, amended: as stated, but the amount of the adjustment is 18% of the total
\* rounded to the cent: a whole number of cents within half a cent of 18%.
C9_SportsLine ==
    (HasPolicy /\ Policy.active_program_id = "SPORTS_LINE") =>
        /\ SportsLineShape
        /\ ~ShipsExpedited(Val(req)) =>
              /\ Policy.adjustments[1].amount % 100 = 0
              /\ 100 * Policy.adjustments[1].amount - 18 * Val(result).total <= 5000
              /\ 18 * Val(result).total - 100 * Policy.adjustments[1].amount <= 5000

\* a non-expedited SPORTS_LINE order whose surcharge is not a whole number of
\* cents before rounding, with a freight row that bills freight
C9_Witness ==
    /\ HasPolicy
    /\ Policy.active_program_id = "SPORTS_LINE"
    /\ ~ShipsExpedited(Val(req))
    /\ freight_rules # <<>>
    /\ Len(Policy.adjustments) = 1
    /\ 100 * Policy.adjustments[1].amount # 18 * Val(result).total

IsTradeIn(request) == IsSome(request.order_type) /\ Val(request.order_type) \in {25, 26}

StackingConstraints == Some([no_rebate_stacking |-> TRUE, no_discount_stacking |-> TRUE])

\* the program_rules rows of match type order_type for the request's order type
OrderTypeRows(request) ==
    SelectSeq(program_rules, LAMBDA r :
        /\ r.match_type = "order_type"
        /\ r.match_value = IntToStr(Val(request.order_type)))

C11_ProgramIsDefined ==
    HasPolicy =>
        /\ Policy.active_program_id \notin {"", "nan", NA}
        /\ \/ Policy.active_program_id = "STANDARD"
           \/ \E i \in 1..Len(program_rules) :
                 program_rules[i].program_id = Policy.active_program_id

----------------------------------------------------------------------------
(* Properties of the rule matcher *)

\* is every condition the rule declares satisfied by the context of the call;
\* the context carries no brand, so a declared brand is not satisfied by it
DeclaredConditionsHold(r, ctx, day) ==
    /\ IsSome(r.match.account) => Val(r.match.account) = ctx.account_id
    /\ IsSome(r.match.account_group) =>
          /\ IsSome(ctx.account_group)
          /\ \E i \in 1..Len(Val(ctx.account_group)) :
                Strip(Val(ctx.account_group)[i]) = Strip(Val(r.match.account_group))
    /\ IsSome(r.match.sku) => Val(r.match.sku) \in {ctx.sku, "*"}
    /\ IsSome(r.match.sku_prefix) => StartsWith(ctx.sku, Val(r.match.sku_prefix))
    /\ ~IsSome(r.match.brand)
    /\ IsSome(r.match.min_qty) => Val(r.match.min_qty) <= ctx.qty
    /\ IsSome(r.match.max_qty) => ctx.qty <= Val(r.match.max_qty)
    /\ IsSome(r.match.start_date) => ~DateLess(day, Val(r.match.start_date))
    /\ IsSome(r.match.end_date) => ~DateLess(Val(r.match.end_date), day)

\* C12 as stated: find_matching_rules returns an active rule if and only if every
\* condition the rule declares (account, account_group, sku, sku_prefix, brand,
\* min_qty, max_qty, start_date, end_date) is satisfied by the context of the call.
C12_MatchesIffConditionsHold ==
    IsSome(match_out) =>
        \A r \in Range(rules) :
            (\E i \in 1..Len(Val(match_out).matched) :
                 Val(match_out).matched[i].rule_id = r.rule_id)
            <=> DeclaredConditionsHold(r, Val(match_out),
                                       IF IsSome(Val(match_out).request_date)
                                       THEN Val(Val(match_out).request_date)
                                       ELSE DateOf(Val(match_out).clock))

----------------------------------------------------------------------------
(* Properties of the lines of a Result *)

\* is the requested SKU in the catalog
InCatalog(raw_sku) == \E j \in 1..Len(Catalog) : Catalog[j].SKU = Strip(raw_sku)

\* the requested items whose SKU is in the catalog, in the order supplied
PresentItems(items) == SelectSeq(items, LAMBDA it : InCatalog(it.sku))

\* one line per requested catalog SKU, in the order supplied
OneLinePerCatalogSku(res, request) ==
    /\ Len(res.lines) = Len(PresentItems(request.items))
    /\ \A i \in 1..Len(res.lines) :
          /\ res.lines[i].sku = Strip(PresentItems(request.items)[i].sku)
          /\ res.lines[i].quantity = PresentItems(request.items)[i].qty

\* a SKU absent from the catalog is skipped silently: no error, no warning names
\* it, and lines, total and warnings are those of the request without it
AbsentSkuSkipped(res, request, without) ==
    /\ ~res.raised
    /\ \A i \in 1..Len(request.items) :
          ~InCatalog(request.items[i].sku) =>
              \A w \in Range(res.warnings) :
                  \A k \in 1..Len(w) : w[k] # Strip(request.items[i].sku)
    /\ res.lines = without.lines
    /\ res.total = without.total
    /\ res.warnings = without.warnings

\* C13: calculate produces exactly one line for each requested SKU present in the
\* catalog, in the order the items were supplied; a requested SKU absent from the
\* catalog produces no line, no warning and no error, and leaves the other lines
\* and the total as they would be without it.
C13_OneLinePerCatalogSku ==
    [][CalculateStep =>
          /\ OneLinePerCatalogSku(Val(result'), Val(req'))
          /\ AbsentSkuSkipped(Val(result'), Val(req'),
                 calculate(program_map, group_members, rules_loaded, rules, now,
                           [Val(req') EXCEPT !.items = PresentItems(@)]))]_vars

\* a Result of a cart with a SKU absent from the catalog and two SKUs of the catalog
C13_Witness ==
    /\ IsSome(result) /\ IsSome(req)
    /\ ~Val(result).raised
    /\ \E i \in 1..Len(Val(req).items) : ~InCatalog(Val(req).items[i].sku)
    /\ Len(Val(result).lines) = 2
    /\ Val(result).lines[1].sku = "S2" /\ Val(result).lines[2].sku = "S1"

\* the sum of the extended prices of the lines
RECURSIVE SumExtended(_)
SumExtended(lines) ==
    IF lines = <<>> THEN 0 ELSE Head(lines).extended_price + SumExtended(Tail(lines))

\* C14: in every Result returned by calculate, each line's extended_price equals
\* its unit_price times its quantity, and the Result's total equals the sum of
\* the extended prices of its lines (zero when there are no lines).
C14_TotalsAddUp ==
    (IsSome(result) /\ ~Val(result).raised) =>
        /\ \A i \in 1..Len(Val(result).lines) :
              Val(result).lines[i].extended_price
                  = Val(result).lines[i].unit_price * Val(result).lines[i].quantity
        /\ Val(result).total = SumExtended(Val(result).lines)
        /\ Val(result).lines = <<>> => Val(result).total = 0

\* a Result with two lines, one of them of quantity 3, and a price rule applied
C14_Witness ==
    /\ IsSome(result) /\ ~Val(result).raised
    /\ Len(Val(result).lines) = 2
    /\ Val(result).lines[1].quantity = 3
    /\ Val(result).lines[1].rules_applied # <<>>
    /\ Val(result).total > 0

----------------------------------------------------------------------------
(* Frame of the calls *)

ConfigOf(request, sku) ==
    IF IsSome(request.item_configs)
       /\ \E i \in 1..Len(Val(request.item_configs)) : Val(request.item_configs)[i].sku = sku
    THEN Some((CHOOSE e \in Range(Val(request.item_configs)) : e.sku = sku).config)
    ELSE None

\* C18 as stated: for every requested SKU that has an entry in request.item_configs
\* and is priced, the produced line's configuration equals that entry unmodified;
\* lines without an entry have no configuration.
C18_ConfigurationPassedThrough ==
    (IsSome(result) /\ IsSome(req) /\ ~Val(result).raised) =>
        \A i \in 1..Len(Val(result).lines) :
            Val(result).lines[i].configuration = ConfigOf(Val(req), Val(result).lines[i].sku)

----------------------------------------------------------------------------
(* Rule action errors *)

\* the loaded rules without those whose price action cannot be applied
WithoutBadRules(rs) == SelectSeq(rs, LAMBDA r :
    ~(r.action.type \in PriceActions /\ FloatRaises([num |-> r.action.num, str |-> r.action.str])))

\* the lines of the Result none of whose applied rules would be a bad one
LinesApartFrom(res, request, bad_skus) ==
    SelectSeq(res.lines, LAMBDA l : l.sku \notin bad_skus)

\* the SKUs of the request that a bad rule matches
BadRuleSkus(request, clock) ==
    {Strip(request.items[i].sku) : i \in
        {k \in 1..Len(request.items) :
            \E r \in Range(LineMatchingRules(rules_loaded, rules, Strip(request.account_id),
                               GroupStr(group_members, Strip(request.account_id)),
                               Strip(request.items[k].sku), request.items[k].qty, clock)) :
                ApplyRaises(r)}}

\* C17 as stated: a matching price-modifying rule whose action_value is not
\* numeric at apply time does not make calculate raise: the call still returns a
\* Result in which every other requested line is priced as it would be without
\* that rule.
C17_BadValueDoesNotRaise ==
    [][CalculateStep =>
          /\ ~Val(result').raised
          /\ LinesApartFrom(Val(result'), Val(req'), BadRuleSkus(Val(req'), now))
               = LinesApartFrom(calculate(program_map, group_members, rules_loaded,
                                          WithoutBadRules(rules), now, Val(req')),
                                Val(req'), BadRuleSkus(Val(req'), now))]_vars

----------------------------------------------------------------------------
(* Properties of the rule compiler *)

\* the columns of the row that break a rule of the validator
FaultyColumns(row) ==
    {c \in {"rule_id"} : Strip(row.rule_id) = ""}
    \cup {c \in {"priority"} : ~IsIntText(Strip(row.priority))}
    \cup {c \in {"min_qty"} : Strip(row.min_qty) # "" /\ ~IsIntText(Strip(row.min_qty))}
    \cup {c \in {"start_date"} : Strip(row.start_date) # "" /\ ~IsIsoDateText(Strip(row.start_date))}
    \cup {c \in {"action_type"} : Strip(row.action_type) \notin VALID_ACTION_TYPES}
    \cup {c \in {"action_value"} :
             \/ Strip(row.action_value) = ""
             \/ /\ Strip(row.action_type) \in VALID_ACTION_TYPES \ {"set_tier"}
                /\ ~IsFloatText(Strip(row.action_value))}

\* has a compile run on a batch in which at least one row fails validation
CompiledInvalidBatch ==
    /\ IsSome(compile_out) /\ IsSome(rules_csv)
    /\ \E i \in 1..Len(Val(rules_csv)) : FaultyColumns(Val(rules_csv)[i]) # {}

\* C19 as stated: compile_rules on a batch in which at least one row fails
\* validation returns failure, writes no output artifact, and returns an error
\* list that contains every validation error of every row, not only the first
\* error found.
C19_AllErrorsReported ==
    CompiledInvalidBatch =>
        /\ ~Val(compile_out).raised
        /\ ~Val(compile_out).success
        /\ ~Val(compile_out).written
        /\ \A i \in 1..Len(Val(rules_csv)) :
              \A c \in FaultyColumns(Val(rules_csv)[i]) :
                  \E e \in Range(Val(compile_out).errors) : e.line = i + 1 /\ e.column = c

----------------------------------------------------------------------------
(* Properties of the rule service *)

\* are the rule ids of rules.csv pairwise distinct
IdsDistinct(csv) ==
    \A i, j \in 1..Len(list_rules(csv)) :
        i # j => list_rules(csv)[i].rule_id # list_rules(csv)[j].rule_id

\* C20 as stated: after any sequence of create_rule, update_rule and delete_rule
\* calls on a rule store whose ids are initially pairwise distinct, the rule ids
\* in the store are still pairwise distinct; in particular create_rule with an id
\* already in the store is rejected with an error and does not modify the store.
C20_RuleIdsStayDistinct ==
    [][/\ IdsDistinct(rules_csv')
       /\ \A rule \in NewRulePool :
             (CreateRule(rule) /\ get_rule(rules_csv, rule.rule_id) # None) =>
                 /\ Val(svc_out').raised
                 /\ rules_csv' = rules_csv]_vars

----------------------------------------------------------------------------
(* Properties of reload_data *)

\* C15 as stated: a calculate call that runs concurrently with reload_data reads
\* all of its reference tables from one snapshot, either entirely the pre-reload
\* one or entirely the post-reload one, and a reload that fails leaves the
\* previous snapshot fully in place.
C15_ReloadIsAtomic ==
    /\ IsSome(calc_seen) =>
          \A i, j \in 1..Len(Val(calc_seen)) :
              Val(calc_seen)[i].version = Val(calc_seen)[j].version
    /\ (IsSome(reload_out) /\ Val(reload_out).status = "failed") =>
          engine = Val(reload_out).before

----------------------------------------------------------------------------
(* Properties of the program resolver *)

\* the program_rules rows of match type account_id for the request's account
AccountRows(request) ==
    SelectSeq(program_rules, LAMBDA r :
        r.match_type = "account_id" /\ r.match_value = request.account_id)

\* the program_rules rows of match type group_id for one of the groups
GroupRows(groups) ==
    SelectSeq(program_rules, LAMBDA r :
        r.match_type = "group_id" /\ r.match_value \in Range(groups))

\* does an order_type row match the request
OrderTypeMatches(request) ==
    IF IsSome(request.order_type) THEN OrderTypeRows(request) # <<>> ELSE FALSE

\* the precedence order_type, account, group, fallback
WaterfallPrecedence(program, request, groups) ==
    /\ OrderTypeMatches(request) => program = OrderTypeRows(request)[1].program_id
    /\ (~OrderTypeMatches(request) /\ AccountRows(request) # <<>>) =>
          program = AccountRows(request)[1].program_id
    /\ (~OrderTypeMatches(request) /\ AccountRows(request) = <<>> /\ GroupRows(groups) # <<>>) =>
          \E i \in 1..Len(GroupRows(groups)) : program = GroupRows(groups)[i].program_id
    /\ (~OrderTypeMatches(request) /\ AccountRows(request) = <<>> /\ GroupRows(groups) = <<>>) =>
          program = "STANDARD"
    /\ program = "STANDARD" =>
          (~OrderTypeMatches(request) /\ AccountRows(request) = <<>> /\ GroupRows(groups) = <<>>)

----------------------------------------------------------------------------
(* Properties of the terms *)

\* the terms rows of the program, or the STANDARD rows when the table has no
\* row at all for the program
TermsRowsOf(program_id) ==
    IF \E i \in 1..Len(terms_rules) : terms_rules[i].program_id = program_id
    THEN SelectSeq(terms_rules, LAMBDA r : r.program_id = program_id)
    ELSE SelectSeq(terms_rules, LAMBDA r : r.program_id = "STANDARD")

\* does [min_total, max_total] contain the total (a blank bound is no bound)
TotalInRange(r, total) ==
    /\ IsSome(r.min_total) => Val(r.min_total) <= total
    /\ IsSome(r.max_total) => total <= Val(r.max_total)

\* does the date range of the row, if it has one, contain the request date
DateInRange(r, request_date) ==
    /\ IsSome(r.start_date) =>
          (IsSome(request_date) /\ ~DateLess(Val(request_date), Val(r.start_date)))
    /\ IsSome(r.end_date) =>
          (IsSome(request_date) /\ ~DateLess(Val(r.end_date), Val(request_date)))

\* the rows that survive the filters, in table order
SurvivingTermsRows(program_id, total, request_date) ==
    SelectSeq(TermsRowsOf(program_id),
              LAMBDA r : TotalInRange(r, total) /\ DateInRange(r, request_date))

\* C22 as stated: when payment_method is not "CC", the terms come from the first
\* row, in table order, among the terms rows of the resolved program (or among
\* the STANDARD rows only when the table has no row for that program) whose
\* [min_total, max_total] range contains the order total and whose date range,
\* if present, contains the request date; when no row survives these filters the
\* terms are the default NET_30 with net_days 30.
C22_TermsFromFirstRow ==
    (HasPolicy /\ Val(req).payment_method # Some("CC")) =>
        IF SurvivingTermsRows(Policy.active_program_id, Val(result).total,
                              Val(req).request_date) = <<>>
        THEN Policy.terms.code = "NET_30" /\ Policy.terms.net_days = Some(30)
        ELSE Policy.terms.code =
                SurvivingTermsRows(Policy.active_program_id, Val(result).total,
                                   Val(req).request_date)[1].terms_code

\* the same for the requests that carry a date
C22_TermsFromFirstRow_Dated ==
    IF IsSome(req) THEN IsSome(Val(req).request_date) => C22_TermsFromFirstRow ELSE TRUE

----------------------------------------------------------------------------
(* Properties of the holds *)

\* do the holds of the policy contain the forwarder hold
HasForwarderHold ==
    \E i \in 1..Len(Policy.holds) : Policy.holds[i].code = "HOLD_INTL_FORWARDER_REQUIRED"

\* C23 as stated: whenever the resolved program id contains "INTERNATIONAL" and
\* the request's ship_to_type is not "FORWARDER" (a request with no ship_to_type
\* included), the policy's holds contain HOLD_INTL_FORWARDER_REQUIRED; when
\* ship_to_type is "FORWARDER" or the program id does not contain
\* "INTERNATIONAL", that hold is absent.
C23_ForwarderHold ==
    HasPolicy =>
        (HasForwarderHold <=>
            /\ Contains(Upper(Policy.active_program_id), "INTERNATIONAL")
            /\ Val(req).ship_to_type # Some("FORWARDER"))

----------------------------------------------------------------------------
(* Properties of the group lookup *)

\* the groups of the account that have a mapping entry, in order of appearance
\* in the membership table
MappedGroups(account_id) ==
    SelectSeq(AccountGroups(group_members, account_id),
              LAMBDA g : \E i \in 1..Len(program_map) : program_map[i].MatchValue = g)

\* the tiers the mapping table gives to the group
TiersOfGroup(g) ==
    { program_map[i].ProgramID : i \in {j \in 1..Len(program_map) : program_map[j].MatchValue = g} }

\* C24 as stated: when an account has no direct mapping and belongs to several
\* groups of which more than one has a mapping entry, the resolver returns the
\* tier of the first of the account's groups, taken in order of appearance in the
\* membership table, that has a mapping entry.
C24_FirstGroupOfMembership ==
    (/\ IsSome(tier_out)
     /\ ~Val(tier_out).raised
     /\ ExactMatch(program_map, Strip(Val(tier_out).account)) = <<>>
     /\ Len(MappedGroups(Strip(Val(tier_out).account))) > 1) =>
        Val(tier_out).tier \in TiersOfGroup(MappedGroups(Strip(Val(tier_out).account))[1])

----------------------------------------------------------------------------
(* Properties of the tier trace *)

\* the step names of a trace, in order
StepsOf(trace) == [i \in 1..Len(trace) |-> trace[i].step]

\* the last traced resolution returned and ended in the MSRP fallback
EndedInFallback ==
    /\ IsSome(tier_out)
    /\ Val(tier_out).traced /\ ~Val(tier_out).raised
    /\ Val(tier_out).trace # <<>>
    /\ Val(tier_out).trace[Len(Val(tier_out).trace)].step = "Fallback"

\* C25 as stated: every resolution returns a trace with one structured entry for
\* each waterfall step it evaluated, including steps that found nothing: one
\* that ends in the MSRP fallback has an entry for the failed direct match, an
\* entry for the group lookup and, when the account has groups but none is
\* mapped, an entry for the failed group-to-tier mapping, before the fallback.
C25_TraceOfEveryStep ==
    EndedInFallback =>
        StepsOf(Val(tier_out).trace) =
            IF AccountGroups(group_members, Strip(Val(tier_out).account)) = <<>>
            THEN <<"Account Lookup", "Direct Match", "Group Lookup", "Fallback">>
            ELSE <<"Account Lookup", "Direct Match", "Group Lookup", "Group -> Tier", "Fallback">>

----------------------------------------------------------------------------
(* Properties of the order of the matched rules *)

\* the position of the rule with this id in the loaded rule list
LoadedPosition(rule_id) == CHOOSE k \in 1..Len(rules) : rules[k].rule_id = rule_id

\* C26: the list returned by find_matching_rules is sorted by ascending priority
\* number, and rules of equal priority appear in the order in which they occur
\* in the loaded rule list.
C26_AscendingAndStable ==
    IsSome(match_out) =>
        \A i, j \in 1..Len(Val(match_out).matched) :
            i < j =>
                /\ Val(match_out).matched[i].priority <= Val(match_out).matched[j].priority
                /\ Val(match_out).matched[i].priority = Val(match_out).matched[j].priority
                      => LoadedPosition(Val(match_out).matched[i].rule_id)
                             < LoadedPosition(Val(match_out).matched[j].rule_id)

\* a call returned two rules of equal priority
C26_Witness ==
    /\ IsSome(match_out)
    /\ Len(Val(match_out).matched) >= 2
    /\ Val(match_out).matched[1].priority = Val(match_out).matched[2].priority
    /\ Val(match_out).matched[1].rule_id # Val(match_out).matched[2].rule_id

----------------------------------------------------------------------------
(* Properties of the rule arithmetic *)

\* the price the stated arithmetic gives, in hundredths of a price unit so that
\* a percentage needs no division
StatedPriceTimes100(action_type, value, base) ==
    CASE action_type = "override_unit_price" -> 100 * value
      [] action_type = "discount_percent" -> base * (100 - value)
      [] action_type = "discount_amount" -> 100 * (IF base - value > 0 THEN base - value ELSE 0)
      [] action_type = "price_floor" -> 100 * (IF base > value THEN base ELSE value)
      [] OTHER -> 100 * base

\* C27: apply_rule_to_price returns the rule value for override_unit_price,
\* base * (1 - value/100) for discount_percent, max(0, base - value) for
\* discount_amount, max(base, value) for price_floor (never lower than base),
\* and the unchanged base price with the tier replaced by the rule value for
\* set_tier.
C27_RuleArithmetic ==
    IsSome(price_out) =>
        /\ 100 * Val(price_out).new_price =
               StatedPriceTimes100(Val(price_out).rule.action_type,
                                   Val(price_out).rule.action_value.num,
                                   Val(price_out).base_price)
        /\ Val(price_out).rule.action_type = "price_floor"
              => Val(price_out).new_price >= Val(price_out).base_price
        /\ Val(price_out).new_tier =
               IF Val(price_out).rule.action_type = "set_tier"
               THEN Val(price_out).rule.action_value.str
               ELSE Val(price_out).current_tier

\* a discount_amount larger than the base price was applied and gave 0
C27_Witness ==
    /\ IsSome(price_out)
    /\ Val(price_out).rule.action_type = "discount_amount"
    /\ Val(price_out).rule.action_value.num > Val(price_out).base_price
    /\ Val(price_out).base_price > 0
    /\ Val(price_out).new_price = 0

----------------------------------------------------------------------------
(* Properties of the sign of a price *)

\* C28 as stated: for every request and every set of validated compiled rules,
\* each line returned by calculate has unit_price >= 0 and extended_price >= 0
\* (the catalog prices and the quantities are non-negative), whatever stack of
\* price-modifying rules was applied.
C28_PricesNotNegative ==
    (IsSome(result) /\ ~Val(result).raised) =>
        \A i \in 1..Len(Val(result).lines) :
            /\ Val(result).lines[i].unit_price >= 0
            /\ Val(result).lines[i].extended_price >= 0

----------------------------------------------------------------------------
(* The three tier resolvers *)

\* C29 as stated: for every account id and every content of the mapping and
\* membership tables, get_account_tier returns the same tier as the first
\* component of get_account_tier_with_trace, and the same tier as the legacy
\* engine's get_account_tier on the same tables.
C29_SameTier ==
    IsSome(tier_out) =>
        /\ get_account_tier(program_map, group_members, Val(tier_out).account)
              = legacy_get_account_tier(program_map, group_members, Val(tier_out).account)
        /\ Val(tier_out).traced =>
              /\ ~Val(tier_out).raised
              /\ Val(tier_out).tier
                    = get_account_tier(program_map, group_members, Val(tier_out).account)

\* the three resolvers agree on every call that returns
C29_SameTier_WhenReturned ==
    (IsSome(tier_out) /\ ~Val(tier_out).raised) =>
        /\ Val(tier_out).tier
              = get_account_tier(program_map, group_members, Val(tier_out).account)
        /\ Val(tier_out).tier
              = legacy_get_account_tier(program_map, group_members, Val(tier_out).account)

----------------------------------------------------------------------------
(* Properties of the source tag *)

\* C30 for one Result returned on the given day
SourceTagged(res, request, day) ==
    \A i \in 1..Len(res.lines) :
        /\ res.lines[i].source \in {"Contract", "MSRP", "Rule"}
        /\ res.lines[i].source = "Rule" <=> PriceRulesApplied(res.lines[i]) # <<>>
        /\ PriceRulesApplied(res.lines[i]) = <<>> =>
              res.lines[i].source = IF NoTierPrice(res, request, res.lines[i], day)
                                    THEN "MSRP" ELSE "Contract"
        /\ (/\ res.lines[i].rules_applied # <<>>
            /\ Range(res.lines[i].rules_applied) \subseteq SetTierIds)
              => res.lines[i].source # "Rule"

====
